---- MODULE Spec2Model ----
(***************************************************************************)
(* A state-machine model of the assets pallet (frame/assets/src/lib.rs)    *)
(* and of the freeze hook it calls (trait FrozenBalance, implemented by    *)
(* frame/assets-freezer/src/lib.rs).                                       *)
(*                                                                         *)
(* The model follows one asset id: the storage maps Asset, Account and     *)
(* Approvals are keyed by the asset id first and no function of the pallet *)
(* reads or writes an entry of another id.                                 *)
(*                                                                         *)
(* Every function of the pallet is an operator from a ledger state `s` to  *)
(* an outcome [st, res, ret, notes]: the state it leaves, "Ok" or the      *)
(* error it returns, the amount it returns, and the calls it made to the   *)
(* reference counter and to the freeze hook, in order.  A try_mutate       *)
(* closure that returns an error writes nothing, so an erroring operator   *)
(* returns the state it was given.                                         *)
(***************************************************************************)
EXTENDS Integers, Sequences, FiniteSets, TLC

\* T::Balance::max_value(): the balance type is a bounded unsigned integer.
MaxBalance == 5

\* The largest value of the accounts/sufficients/approvals counters: u32::max_value()
\* in the code, here any number the holders of the model cannot reach.
MaxCount == 3

\* The model follows the reference counters of a holder up to this value.
MaxRefs == 2

\* T::ApprovalDeposit::get()
ApprovalDeposit == 1

\* T::AccountId values.
Holders == {"h1", "h2"}

\* The identities given to force_create / force_asset_status as the team.
Owners == {"h1"}
\* The holders an owner names as delegate in approve_transfer.
Delegates == {"h2"}

Balances == 0 .. MaxBalance

\* Option<T::Balance>: None is the empty sequence, Some(x) is <<x>>.
NoneB == << >>
SomeB(x) == << x >>
IsSome(o) == Len(o) = 1
Unwrap(o) == o[1]

\* The answers T::Freezer::frozen_balance may give for the debited account.
FrozenAnswers == {NoneB, SomeB(1)}

\* RespectFrozen
RespectFrozen == {"Respect", "Ignore"}

\* Bounded unsigned arithmetic of T::Balance.
CheckedAddOk(a, b) == a + b <= MaxBalance
SaturatingAdd(a, b) == IF a + b > MaxBalance THEN MaxBalance ELSE a + b
SaturatingSub(a, b) == IF a < b THEN 0 ELSE a - b
Min(a, b) == IF a < b THEN a ELSE b

VARIABLES
    asset,      \* Asset::<T>: the AssetDetails of the asset id, with `exists`
    account,    \* Account::<T>: holder -> AssetBalance, with `exists`
    approvals,  \* Approvals::<T>: <<owner, delegate>> -> Approval, with `exists`
    free,       \* T::Currency: free balance of each holder
    reserved,   \* T::Currency: reserved balance of each holder
    providers,  \* frame_system: provider references of each holder
    consumers,  \* frame_system: consumer references of each holder
    sufficients,\* frame_system: self-sufficient references of each holder
    pc,         \* "idle": no call in progress; "ret": a call has just returned
    call        \* the call that has just returned: its arguments, the state
                \* before it, its result and the notifications it made

vars == << asset, account, approvals, free, reserved, providers, consumers,
           sufficients, pc, call >>

\* The value Account::<T>::get returns for a key that is not stored (ValueQuery).
DefaultAccount ==
    [exists |-> FALSE, balance |-> 0, is_frozen |-> FALSE, sufficient |-> FALSE,
     extra |-> 0]

\* No entry of Asset::<T> for the id.
NoAsset ==
    [exists |-> FALSE, owner |-> "h1", issuer |-> "h1", admin |-> "h1",
     freezer |-> "h1", supply |-> 0, min_balance |-> 0, is_sufficient |-> FALSE,
     accounts |-> 0, sufficients |-> 0, approvals |-> 0, is_frozen |-> FALSE]

\* Approvals::<T>::get of a key that is not stored: Approval::default().
NoApproval == [exists |-> FALSE, amount |-> 0, deposit |-> 0]

\* The ledger as one record, the `s` every operator takes.
Cur ==
    [asset |-> asset, account |-> account, approvals |-> approvals,
     free |-> free, reserved |-> reserved, providers |-> providers,
     consumers |-> consumers, sufficients |-> sufficients]

Note(k, who, arg) == [k |-> k, who |-> who, arg |-> arg]

Outcome(s, res, ret, notes) == [st |-> s, res |-> res, ret |-> ret, notes |-> notes]

-----------------------------------------------------------------------------
(* Admissibility *)

\* A can_increase that tests the minimum balance before the overflows.
CanIncreaseMinimumFirst(s, who, amount) ==
    LET details == s.asset
        acc == s.account[who]
    IN  IF ~details.exists THEN "UnknownAsset"
        ELSE IF acc.balance = 0 /\ amount < details.min_balance THEN "BelowMinimum"
        ELSE IF ~CheckedAddOk(details.supply, amount) THEN "Overflow"
        ELSE IF ~CheckedAddOk(acc.balance, amount) THEN "Overflow"
        ELSE IF acc.balance = 0 /\ ~details.is_sufficient /\ s.providers[who] = 0
             THEN "CannotCreate"
        ELSE IF acc.balance = 0 /\ details.is_sufficient
                /\ details.sufficients + 1 > MaxCount
             THEN "Overflow"
        ELSE "Success"

\* can_increase: the DepositConsequence of crediting `amount` to `who`.
CanIncrease(s, who, amount) ==
    LET details == s.asset
        acc == s.account[who]
    IN  IF ~details.exists THEN "UnknownAsset"
        ELSE IF ~CheckedAddOk(details.supply, amount) THEN "Overflow"
        ELSE IF ~CheckedAddOk(acc.balance, amount) THEN "Overflow"
        ELSE IF acc.balance = 0 /\ amount < details.min_balance THEN "BelowMinimum"
        ELSE IF acc.balance = 0 /\ ~details.is_sufficient /\ s.providers[who] = 0
             THEN "CannotCreate"
        ELSE IF acc.balance = 0 /\ details.is_sufficient
                /\ details.sufficients + 1 > MaxCount
             THEN "Overflow"
        ELSE "Success"

\* A can_decrease that looks at the balance before the frozen flags.
CanDecreaseFundsFirst(s, who, amount, keep_alive, respect_frozen, fz) ==
    LET details == s.asset
        acc == s.account[who]
        rest == acc.balance - amount
        required == Unwrap(fz) + details.min_balance
        below == IsSome(fz) /\ rest < required
        maybe_new_frozen ==
            IF below THEN SomeB(SaturatingSub(rest, details.min_balance)) ELSE NoneB
        R(c, d, m) == [conseq |-> c, dust |-> d, melt |-> m]
    IN  IF ~details.exists THEN R("UnknownAsset", 0, NoneB)
        ELSE IF details.supply < amount THEN R("Underflow", 0, NoneB)
        ELSE IF acc.balance < amount THEN R("NoFunds", 0, NoneB)
        ELSE IF details.is_frozen THEN R("Frozen", 0, NoneB)
        ELSE IF acc.is_frozen THEN R("Frozen", 0, NoneB)
        ELSE IF IsSome(fz) /\ required > MaxBalance THEN R("Overflow", 0, NoneB)
        ELSE IF below /\ respect_frozen = "Respect" THEN R("Frozen", 0, NoneB)
        ELSE IF rest < details.min_balance
             THEN IF keep_alive THEN R("WouldDie", 0, NoneB)
                  ELSE R("ReducedToZero", rest, maybe_new_frozen)
        ELSE R("Success", 0, maybe_new_frozen)

\* A can_decrease that reports the whole rest as the melt amount.
CanDecreaseMeltingRest(s, who, amount, keep_alive, respect_frozen, fz) ==
    LET details == s.asset
        acc == s.account[who]
        rest == acc.balance - amount
        required == Unwrap(fz) + details.min_balance
        below == IsSome(fz) /\ rest < required
        maybe_new_frozen == IF below THEN SomeB(rest) ELSE NoneB
        R(c, d, m) == [conseq |-> c, dust |-> d, melt |-> m]
    IN  IF ~details.exists THEN R("UnknownAsset", 0, NoneB)
        ELSE IF details.supply < amount THEN R("Underflow", 0, NoneB)
        ELSE IF details.is_frozen THEN R("Frozen", 0, NoneB)
        ELSE IF acc.is_frozen THEN R("Frozen", 0, NoneB)
        ELSE IF acc.balance < amount THEN R("NoFunds", 0, NoneB)
        ELSE IF IsSome(fz) /\ required > MaxBalance THEN R("Overflow", 0, NoneB)
        ELSE IF below /\ respect_frozen = "Respect" THEN R("Frozen", 0, NoneB)
        ELSE IF rest < details.min_balance
             THEN IF keep_alive THEN R("WouldDie", 0, NoneB)
                  ELSE R("ReducedToZero", rest, maybe_new_frozen)
        ELSE R("Success", 0, maybe_new_frozen)

\* A can_decrease that lets a respected freeze through with a melt amount.
CanDecreaseMeltingRespected(s, who, amount, keep_alive, respect_frozen, fz) ==
    LET details == s.asset
        acc == s.account[who]
        rest == acc.balance - amount
        required == Unwrap(fz) + details.min_balance
        below == IsSome(fz) /\ rest < required
        maybe_new_frozen ==
            IF below THEN SomeB(SaturatingSub(rest, details.min_balance)) ELSE NoneB
        R(c, d, m) == [conseq |-> c, dust |-> d, melt |-> m]
    IN  IF ~details.exists THEN R("UnknownAsset", 0, NoneB)
        ELSE IF details.supply < amount THEN R("Underflow", 0, NoneB)
        ELSE IF details.is_frozen THEN R("Frozen", 0, NoneB)
        ELSE IF acc.is_frozen THEN R("Frozen", 0, NoneB)
        ELSE IF acc.balance < amount THEN R("NoFunds", 0, NoneB)
        ELSE IF IsSome(fz) /\ required > MaxBalance THEN R("Overflow", 0, NoneB)
        ELSE IF rest < details.min_balance
             THEN IF keep_alive THEN R("WouldDie", 0, NoneB)
                  ELSE R("ReducedToZero", rest, maybe_new_frozen)
        ELSE R("Success", 0, maybe_new_frozen)

\* can_decrease: the WithdrawConsequence of debiting `amount` from `who`
\* (dust is the argument of ReducedToZero) and the argument of the `melted`
\* notification, if one is to be sent.  `fz` is frozen_balance(id, who).
CanDecrease(s, who, amount, keep_alive, respect_frozen, fz) ==
    LET details == s.asset
        acc == s.account[who]
        rest == acc.balance - amount
        required == Unwrap(fz) + details.min_balance
        below == IsSome(fz) /\ rest < required
        maybe_new_frozen ==
            IF below THEN SomeB(SaturatingSub(rest, details.min_balance)) ELSE NoneB
        R(c, d, m) == [conseq |-> c, dust |-> d, melt |-> m]
    IN  IF ~details.exists THEN R("UnknownAsset", 0, NoneB)
        ELSE IF details.supply < amount THEN R("Underflow", 0, NoneB)
        ELSE IF details.is_frozen THEN R("Frozen", 0, NoneB)
        ELSE IF acc.is_frozen THEN R("Frozen", 0, NoneB)
        ELSE IF acc.balance < amount THEN R("NoFunds", 0, NoneB)
        ELSE IF IsSome(fz) /\ required > MaxBalance THEN R("Overflow", 0, NoneB)
        ELSE IF below /\ respect_frozen = "Respect" THEN R("Frozen", 0, NoneB)
        ELSE IF rest < details.min_balance
             THEN IF keep_alive THEN R("WouldDie", 0, NoneB)
                  ELSE R("ReducedToZero", rest, maybe_new_frozen)
        ELSE R("Success", 0, maybe_new_frozen)

\* decreasable_balance: [err |-> "Ok", val |-> amount] or the error.
DecreasableBalance(s, who, keep_alive, respect_frozen, fz) ==
    LET details == s.asset
        acc == s.account[who]
        required == Unwrap(fz) + details.min_balance
        amount ==
            IF respect_frozen = "Respect" /\ IsSome(fz)
            THEN SaturatingSub(acc.balance, required)
            ELSE IF keep_alive THEN SaturatingSub(acc.balance, details.min_balance)
            ELSE acc.balance
    IN  IF ~details.exists THEN [err |-> "Unknown", val |-> 0]
        ELSE IF details.is_frozen THEN [err |-> "Frozen", val |-> 0]
        ELSE IF acc.is_frozen THEN [err |-> "Frozen", val |-> 0]
        ELSE IF respect_frozen = "Respect" /\ IsSome(fz) /\ required > MaxBalance
             THEN [err |-> "Overflow", val |-> 0]
        ELSE [err |-> "Ok", val |-> Min(amount, details.supply)]

\* WithdrawConsequence::into_result: Success and ReducedToZero are Ok.
WithdrawOk(conseq) == conseq \in {"Success", "ReducedToZero"}

\* The TokenError a failing consequence is converted into (into_result); the
\* prefix keeps TokenError::Frozen apart from the pallet's Error::Frozen.
TokenError(conseq) == "Token." \o conseq

\* A prep_debit that debits the amount asked and leaves the dust behind.
PrepDebitKeepingDust(s, target, amount, keep_alive, respect_frozen, best_effort, fz) ==
    LET dec == DecreasableBalance(s, target, keep_alive, respect_frozen, fz)
        actual == Min(dec.val, amount)
        cd == CanDecrease(s, target, actual, keep_alive, respect_frozen, fz)
        R(e, a, m, x) == [err |-> e, actual |-> a, melted |-> m, asserted |-> x]
    IN  IF dec.err # "Ok" THEN R(dec.err, 0, NoneB, FALSE)
        ELSE IF ~(best_effort \/ actual >= amount) THEN R("BalanceLow", 0, NoneB, FALSE)
        ELSE IF ~WithdrawOk(cd.conseq) THEN R(TokenError(cd.conseq), 0, NoneB, TRUE)
        ELSE R("Ok", actual, cd.melt, FALSE)

\* A prep_debit that takes every debit as one that may close the account.
PrepDebitLettingDie(s, target, amount, keep_alive, respect_frozen, best_effort, fz) ==
    LET dec == DecreasableBalance(s, target, FALSE, respect_frozen, fz)
        actual == Min(dec.val, amount)
        cd == CanDecrease(s, target, actual, FALSE, respect_frozen, fz)
        R(e, a, m, x) == [err |-> e, actual |-> a, melted |-> m, asserted |-> x]
    IN  IF dec.err # "Ok" THEN R(dec.err, 0, NoneB, FALSE)
        ELSE IF ~(best_effort \/ actual >= amount) THEN R("BalanceLow", 0, NoneB, FALSE)
        ELSE IF ~WithdrawOk(cd.conseq) THEN R(TokenError(cd.conseq), 0, NoneB, TRUE)
        ELSE R("Ok", SaturatingAdd(actual, cd.dust), cd.melt, FALSE)

\* A prep_debit that takes every debit as best-effort.
PrepDebitAnyAmount(s, target, amount, keep_alive, respect_frozen, best_effort, fz) ==
    LET dec == DecreasableBalance(s, target, keep_alive, respect_frozen, fz)
        actual == Min(dec.val, amount)
        cd == CanDecrease(s, target, actual, keep_alive, respect_frozen, fz)
        R(e, a, m, x) == [err |-> e, actual |-> a, melted |-> m, asserted |-> x]
    IN  IF dec.err # "Ok" THEN R(dec.err, 0, NoneB, FALSE)
        ELSE IF ~WithdrawOk(cd.conseq) THEN R(TokenError(cd.conseq), 0, NoneB, TRUE)
        ELSE R("Ok", SaturatingAdd(actual, cd.dust), cd.melt, FALSE)

\* A prep_debit that requires the whole amount even of a best-effort debit.
PrepDebitExactOnly(s, target, amount, keep_alive, respect_frozen, best_effort, fz) ==
    LET dec == DecreasableBalance(s, target, keep_alive, respect_frozen, fz)
        actual == Min(dec.val, amount)
        cd == CanDecrease(s, target, actual, keep_alive, respect_frozen, fz)
        R(e, a, m, x) == [err |-> e, actual |-> a, melted |-> m, asserted |-> x]
    IN  IF dec.err # "Ok" THEN R(dec.err, 0, NoneB, FALSE)
        ELSE IF ~(actual >= amount) THEN R("BalanceLow", 0, NoneB, FALSE)
        ELSE IF ~WithdrawOk(cd.conseq) THEN R(TokenError(cd.conseq), 0, NoneB, TRUE)
        ELSE R("Ok", SaturatingAdd(actual, cd.dust), cd.melt, FALSE)

\* A prep_debit that does not look at the frozen flags.
PrepDebitOfFrozen(s, target, amount, keep_alive, respect_frozen, best_effort, fz) ==
    LET t == [s EXCEPT !.asset.is_frozen = FALSE, !.account[target].is_frozen = FALSE]
        dec == DecreasableBalance(t, target, keep_alive, respect_frozen, fz)
        actual == Min(dec.val, amount)
        cd == CanDecrease(t, target, actual, keep_alive, respect_frozen, fz)
        R(e, a, m, x) == [err |-> e, actual |-> a, melted |-> m, asserted |-> x]
    IN  IF dec.err # "Ok" THEN R(dec.err, 0, NoneB, FALSE)
        ELSE IF ~(best_effort \/ actual >= amount) THEN R("BalanceLow", 0, NoneB, FALSE)
        ELSE IF ~WithdrawOk(cd.conseq) THEN R(TokenError(cd.conseq), 0, NoneB, TRUE)
        ELSE R("Ok", SaturatingAdd(actual, cd.dust), cd.melt, FALSE)

\* prep_debit: [err, actual, melted, asserted]; `asserted` records that the
\* debug assertion "passed from decreasable_balance; qed" was reached.
PrepDebit(s, target, amount, keep_alive, respect_frozen, best_effort, fz) ==
    LET dec == DecreasableBalance(s, target, keep_alive, respect_frozen, fz)
        actual == Min(dec.val, amount)
        cd == CanDecrease(s, target, actual, keep_alive, respect_frozen, fz)
        R(e, a, m, x) == [err |-> e, actual |-> a, melted |-> m, asserted |-> x]
    IN  IF dec.err # "Ok" THEN R(dec.err, 0, NoneB, FALSE)
        ELSE IF ~(best_effort \/ actual >= amount) THEN R("BalanceLow", 0, NoneB, FALSE)
        ELSE IF ~WithdrawOk(cd.conseq) THEN R(TokenError(cd.conseq), 0, NoneB, TRUE)
        ELSE R("Ok", SaturatingAdd(actual, cd.dust), cd.melt, FALSE)

\* A prep_credit that delivers the whole debit whatever burn_dust says.
PrepCreditDeliveringDust(s, dest, amount, debit, burn_dust) ==
    LET ci == CanIncrease(s, dest, debit)
    IN  IF ci # "Success" THEN [err |-> TokenError(ci), credit |-> 0, burn |-> NoneB]
        ELSE [err |-> "Ok", credit |-> debit, burn |-> NoneB]

\* prep_credit: [err, credit, burn]; burn is the Option maybe_burn.
PrepCredit(s, dest, amount, debit, burn_dust) ==
    LET dusted == burn_dust /\ debit >= amount
        credit == IF dusted THEN amount ELSE debit
        maybe_burn == IF dusted THEN SomeB(debit - amount) ELSE NoneB
        ci == CanIncrease(s, dest, credit)
    IN  IF ci # "Success" THEN [err |-> TokenError(ci), credit |-> 0, burn |-> NoneB]
        ELSE [err |-> "Ok", credit |-> credit, burn |-> maybe_burn]

-----------------------------------------------------------------------------
(* Reference counter (frame_system) and currency *)

\* frame_system::inc_consumers fails when the holder has no provider reference.
IncConsumersOk(s, who) == s.providers[who] > 0

IncConsumers(s, who) == [s EXCEPT !.consumers[who] = @ + 1]

IncSufficients(s, who) == [s EXCEPT !.sufficients[who] = @ + 1]

\* A decrement of a counter that is already zero is logged and changes nothing.
DecConsumers(s, who) == [s EXCEPT !.consumers[who] = SaturatingSub(@, 1)]

DecSufficients(s, who) == [s EXCEPT !.sufficients[who] = SaturatingSub(@, 1)]

\* Currency::reserve fails when the free balance does not cover the amount.
CanReserve(s, who, amount) == s.free[who] >= amount

Reserve(s, who, amount) ==
    [s EXCEPT !.free[who] = @ - amount, !.reserved[who] = @ + amount]

\* Currency::unreserve moves back at most what is reserved.
Unreserve(s, who, amount) ==
    LET moved == Min(amount, s.reserved[who])
    IN  [s EXCEPT !.free[who] = @ + moved, !.reserved[who] = @ - moved]

-----------------------------------------------------------------------------
(* Account lifecycle *)

\* A new_account that takes a consumer reference whatever the asset is.
NewAccountAsConsumer(s, who) ==
    LET d == s.asset
        R(e, st, b, n) == [err |-> e, st |-> st, sufficient |-> b, notes |-> n]
    IN  IF d.accounts + 1 > MaxCount THEN R("Overflow", s, FALSE, << >>)
        ELSE IF ~IncConsumersOk(s, who) THEN R("NoProvider", s, FALSE, << >>)
        ELSE R("Ok", [IncConsumers(s, who) EXCEPT !.asset.accounts = @ + 1],
               FALSE, << Note("inc_consumers", who, 0) >>)

\* new_account: [err, st, sufficient, notes].
NewAccount(s, who) ==
    LET d == s.asset
        R(e, st, b, n) == [err |-> e, st |-> st, sufficient |-> b, notes |-> n]
    IN  IF d.accounts + 1 > MaxCount THEN R("Overflow", s, FALSE, << >>)
        ELSE IF d.is_sufficient
             THEN R("Ok",
                    [IncSufficients(s, who) EXCEPT
                        !.asset.sufficients = @ + 1,
                        !.asset.accounts = @ + 1],
                    TRUE, << Note("inc_sufficients", who, 0) >>)
        ELSE IF ~IncConsumersOk(s, who) THEN R("NoProvider", s, FALSE, << >>)
        ELSE R("Ok", [IncConsumers(s, who) EXCEPT !.asset.accounts = @ + 1],
               FALSE, << Note("inc_consumers", who, 0) >>)

\* A dead_account that releases a consumer reference whatever the record says.
DeadAccountAsConsumer(s, who, sufficient) ==
    [st |-> [DecConsumers(s, who) EXCEPT
                !.asset.sufficients = SaturatingSub(@, IF sufficient THEN 1 ELSE 0),
                !.asset.accounts = SaturatingSub(@, 1)],
     notes |-> << Note("dec_consumers", who, 0), Note("died", who, 0) >>]

\* dead_account: [st, notes]; it cannot fail.
DeadAccount(s, who, sufficient) ==
    IF sufficient
    THEN [st |-> [DecSufficients(s, who) EXCEPT
                     !.asset.sufficients = SaturatingSub(@, 1),
                     !.asset.accounts = SaturatingSub(@, 1)],
          notes |-> << Note("dec_sufficients", who, 0), Note("died", who, 0) >>]
    ELSE [st |-> [DecConsumers(s, who) EXCEPT
                     !.asset.accounts = SaturatingSub(@, 1)],
          notes |-> << Note("dec_consumers", who, 0), Note("died", who, 0) >>]

\* The `melted` notification sent after the ledger mutation, if any.
MeltedNotes(who, melted) ==
    IF IsSome(melted) THEN << Note("melted", who, Unwrap(melted)) >> ELSE << >>

\* The point at which the account record of `who` is taken out of storage.
RemovedNotes(who) == << Note("removed", who, 0) >>

\* The debug assertion of prep_debit, recorded when it is reached.
AssertNotes(asserted, who) ==
    IF asserted THEN << Note("debug_assert", who, 0) >> ELSE << >>

\* A debug assertion "checked in prep; qed", recorded when its condition is
\* false.  site 1: the balance covers the debit; site 2: a balance left below
\* the minimum is zero; site 3: the credit does not overflow; site 4: the
\* supply covers the burnt dust; sites 5 and 6: destroy leaves the account
\* count and the sufficient count at zero.
CheckedInPrep(holds, who, site) ==
    IF holds THEN << >> ELSE << Note("debug_assert", who, site) >>

-----------------------------------------------------------------------------
(* Mint and burn *)

\* increase_balance with the `check` closure of do_mint: the issuer check and
\* the supply increase.  maybe_check_issuer is << >> or << origin >>.
DoMint(s, beneficiary, amount, maybe_check_issuer) ==
    LET ci == CanIncrease(s, beneficiary, amount)
        checked == [s EXCEPT !.asset.supply = SaturatingAdd(@, amount)]
        t == s.account[beneficiary]
        new_balance == SaturatingAdd(t.balance, amount)
        na == IF t.balance = 0 THEN NewAccount(checked, beneficiary)
              ELSE [err |-> "Ok", st |-> checked, sufficient |-> t.sufficient,
                    notes |-> << >>]
    IN  IF amount = 0 THEN Outcome(s, "Ok", 0, << >>)
        ELSE IF ci # "Success" THEN Outcome(s, TokenError(ci), 0, << >>)
        ELSE IF maybe_check_issuer # << >> /\ maybe_check_issuer[1] # s.asset.issuer
             THEN Outcome(s, "NoPermission", 0, << >>)
        ELSE IF new_balance < s.asset.min_balance
             THEN Outcome(s, "Token.BelowMinimum", 0, << >>)
        ELSE IF na.err # "Ok" THEN Outcome(s, na.err, 0, << >>)
        ELSE Outcome([na.st EXCEPT !.account[beneficiary] =
                         [t EXCEPT !.exists = TRUE, !.balance = new_balance,
                                   !.sufficient = na.sufficient]],
                     "Ok", amount, na.notes)

\* decrease_balance; `burn` says whether the `check` closure is do_burn's (the
\* admin check and the supply decrease) or the no-op of the Unbalanced trait.
DecreaseBalance(s, target, amount, keep_alive, respect_frozen, best_effort, burn, maybe_check_admin, fz) ==
    LET pd == PrepDebit(s, target, amount, keep_alive, respect_frozen, best_effort, fz)
        actual == pd.actual
        checked == IF burn
                   THEN [s EXCEPT !.asset.supply = SaturatingSub(@, actual)]
                   ELSE s
        acc == s.account[target]
        new_balance == SaturatingSub(acc.balance, actual)
        dies == new_balance < s.asset.min_balance
        dead == DeadAccount(checked, target, acc.sufficient)
        after == IF dies
                 THEN [dead.st EXCEPT !.account[target] = DefaultAccount]
                 ELSE [checked EXCEPT !.account[target] =
                          [acc EXCEPT !.exists = TRUE, !.balance = new_balance]]
    IN  IF amount = 0 THEN Outcome(s, "Ok", 0, << >>)
        ELSE IF pd.err # "Ok"
             THEN Outcome(s, pd.err, 0, AssertNotes(pd.asserted, target))
        ELSE IF burn /\ maybe_check_admin # << >>
                /\ maybe_check_admin[1] # s.asset.admin
             THEN Outcome(s, "NoPermission", 0, << >>)
        ELSE Outcome(after, "Ok", actual,
                     CheckedInPrep(acc.balance >= actual, target, 1)
                        \o (IF dies
                            THEN CheckedInPrep(new_balance = 0, target, 2)
                                    \o dead.notes \o RemovedNotes(target)
                            ELSE << >>)
                        \o MeltedNotes(target, pd.melted))

\* A burn that debits the holder and leaves the supply as it was.
BurnKeepingSupply(s, target, amount, maybe_check_admin, keep_alive, respect_frozen, best_effort, fz) ==
    DecreaseBalance(s, target, amount, keep_alive, respect_frozen, best_effort,
                    FALSE, maybe_check_admin, fz)

\* do_burn
DoBurn(s, target, amount, maybe_check_admin, keep_alive, respect_frozen, best_effort, fz) ==
    DecreaseBalance(s, target, amount, keep_alive, respect_frozen, best_effort,
                    TRUE, maybe_check_admin, fz)

-----------------------------------------------------------------------------
(* Transfer *)

\* A transfer that runs the debit checks before looking at the amount.
TransferWithoutEarlyExit(s, source, dest, amount, maybe_need_admin, keep_alive, respect_frozen, best_effort, burn_dust, fz) ==
    LET pd == PrepDebit(s, source, amount, keep_alive, respect_frozen, best_effort, fz)
    IN  IF pd.err # "Ok" THEN Outcome(s, pd.err, 0, << >>)
        ELSE Outcome(s, "Ok", 0, << >>)

\* A transfer that debits the source even when it is its own destination.
TransferDebitingSelf(s, source, dest, amount, maybe_need_admin, keep_alive, respect_frozen, best_effort, burn_dust, fz) ==
    LET pd == PrepDebit(s, source, amount, keep_alive, respect_frozen, best_effort, fz)
        pc_ == PrepCredit(s, dest, amount, pd.actual, burn_dust)
    IN  IF amount = 0 THEN Outcome(s, "Ok", 0, << >>)
        ELSE IF pd.err # "Ok" THEN Outcome(s, pd.err, 0, AssertNotes(pd.asserted, source))
        ELSE IF pc_.err # "Ok" THEN Outcome(s, pc_.err, 0, << >>)
        ELSE Outcome([s EXCEPT !.account[source].balance = SaturatingSub(@, pd.actual)],
                     "Ok", pc_.credit, << >>)

\* do_transfer
DoTransfer(s, source, dest, amount, maybe_need_admin, keep_alive, respect_frozen, best_effort, burn_dust, fz) ==
    LET pd == PrepDebit(s, source, amount, keep_alive, respect_frozen, best_effort, fz)
        debit == pd.actual
        pc_ == PrepCredit(s, dest, amount, debit, burn_dust)
        credit == pc_.credit
        source_account == s.account[source]
        burned == IF IsSome(pc_.burn)
                  THEN [s EXCEPT !.asset.supply = SaturatingSub(@, Unwrap(pc_.burn))]
                  ELSE s
        source_balance == SaturatingSub(source_account.balance, debit)
        a == s.account[dest]
        new_balance == SaturatingAdd(a.balance, credit)
        na == IF a.balance = 0 THEN NewAccount(burned, dest)
              ELSE [err |-> "Ok", st |-> burned, sufficient |-> a.sufficient,
                    notes |-> << >>]
        credited == [na.st EXCEPT !.account[dest] =
                        [a EXCEPT !.exists = TRUE, !.balance = new_balance,
                                  !.sufficient = na.sufficient]]
        dies == source_balance < s.asset.min_balance
        dead == DeadAccount(credited, source, source_account.sufficient)
        after == IF dies
                 THEN [dead.st EXCEPT !.account[source] = DefaultAccount]
                 ELSE [credited EXCEPT !.account[source] =
                          [source_account EXCEPT !.exists = TRUE,
                                                 !.balance = source_balance]]
    IN  IF amount = 0 THEN Outcome(s, "Ok", 0, << >>)
        ELSE IF pd.err # "Ok"
             THEN Outcome(s, pd.err, 0, AssertNotes(pd.asserted, source))
        ELSE IF pc_.err # "Ok" THEN Outcome(s, pc_.err, 0, << >>)
        ELSE IF maybe_need_admin # << >> /\ maybe_need_admin[1] # s.asset.admin
             THEN Outcome(s, "NoPermission", 0, << >>)
        ELSE IF source = dest
             THEN Outcome(s, "Ok", credit, MeltedNotes(source, pd.melted))
        ELSE IF na.err # "Ok" THEN Outcome(s, na.err, 0, << >>)
        ELSE Outcome(after, "Ok", credit,
                     CheckedInPrep(source_account.balance >= debit, source, 1)
                        \o CheckedInPrep(IsSome(pc_.burn) =>
                                            s.asset.supply >= Unwrap(pc_.burn),
                                         source, 4)
                        \o CheckedInPrep(CheckedAddOk(a.balance, credit), dest, 3)
                        \o na.notes
                        \o (IF dies
                            THEN CheckedInPrep(source_balance = 0, source, 2)
                                    \o dead.notes \o RemovedNotes(source)
                            ELSE << >>)
                        \o MeltedNotes(source, pd.melted))

-----------------------------------------------------------------------------
(* Asset lifecycle and administration *)

\* force_create (the ForceOrigin check is the caller's).
ForceCreate(s, owner, is_sufficient, min_balance) ==
    IF s.asset.exists THEN Outcome(s, "InUse", 0, << >>)
    ELSE IF min_balance = 0 THEN Outcome(s, "MinBalanceZero", 0, << >>)
    ELSE Outcome([s EXCEPT !.asset =
                     [exists |-> TRUE, owner |-> owner, issuer |-> owner,
                      admin |-> owner, freezer |-> owner, supply |-> 0,
                      min_balance |-> min_balance, is_sufficient |-> is_sufficient,
                      accounts |-> 0, sufficients |-> 0, approvals |-> 0,
                      is_frozen |-> FALSE]],
                 "Ok", 0, << >>)

\* The order in which drain_prefix yields the accounts of the asset.
HolderOrder == << "h1", "h2" >>

\* The drain_prefix loop of destroy, from the i-th holder on.
RECURSIVE DrainAccounts(_, _, _)
DrainAccounts(s, i, notes) ==
    IF i > Len(HolderOrder) THEN [st |-> s, notes |-> notes]
    ELSE LET who == HolderOrder[i]
             dead == DeadAccount(s, who, s.account[who].sufficient)
         IN  IF s.account[who].exists
             THEN DrainAccounts([dead.st EXCEPT !.account[who] = DefaultAccount],
                                i + 1,
                                notes \o RemovedNotes(who) \o dead.notes)
             ELSE DrainAccounts(s, i + 1, notes)

\* A destroy that does not look at the witness.
DestroyUnwitnessed(s, maybe_check_owner, witness) ==
    LET details == s.asset
        drained == DrainAccounts(s, 1, << >>)
    IN  IF ~details.exists THEN Outcome(s, "Unknown", 0, << >>)
        ELSE IF maybe_check_owner # << >> /\ maybe_check_owner[1] # details.owner
             THEN Outcome(s, "NoPermission", 0, << >>)
        ELSE Outcome([drained.st EXCEPT
                         !.asset = NoAsset,
                         !.approvals = [k \in Holders \X Holders |-> NoApproval]],
                     "Ok", 0, drained.notes)

\* destroy; maybe_check_owner is << >> (ForceOrigin) or << signer >>.
Destroy(s, maybe_check_owner, witness) ==
    LET details == s.asset
        drained == DrainAccounts(s, 1, << >>)
    IN  IF ~details.exists THEN Outcome(s, "Unknown", 0, << >>)
        ELSE IF maybe_check_owner # << >> /\ maybe_check_owner[1] # details.owner
             THEN Outcome(s, "NoPermission", 0, << >>)
        ELSE IF details.accounts # witness.accounts
             THEN Outcome(s, "BadWitness", 0, << >>)
        ELSE IF details.sufficients # witness.sufficients
             THEN Outcome(s, "BadWitness", 0, << >>)
        ELSE IF details.approvals # witness.approvals
             THEN Outcome(s, "BadWitness", 0, << >>)
        ELSE Outcome([drained.st EXCEPT
                         !.asset = NoAsset,
                         !.approvals = [k \in Holders \X Holders |-> NoApproval]],
                     "Ok", 0,
                     drained.notes
                        \o CheckedInPrep(drained.st.asset.accounts = 0,
                                         details.owner, 5)
                        \o CheckedInPrep(drained.st.asset.sufficients = 0,
                                         details.owner, 6))

\* freeze
Freeze(s, origin, who) ==
    IF ~s.asset.exists THEN Outcome(s, "Unknown", 0, << >>)
    ELSE IF origin # s.asset.freezer THEN Outcome(s, "NoPermission", 0, << >>)
    ELSE IF ~s.account[who].exists THEN Outcome(s, "BalanceZero", 0, << >>)
    ELSE Outcome([s EXCEPT !.account[who].is_frozen = TRUE], "Ok", 0, << >>)

\* thaw
Thaw(s, origin, who) ==
    IF ~s.asset.exists THEN Outcome(s, "Unknown", 0, << >>)
    ELSE IF origin # s.asset.admin THEN Outcome(s, "NoPermission", 0, << >>)
    ELSE IF ~s.account[who].exists THEN Outcome(s, "BalanceZero", 0, << >>)
    ELSE Outcome([s EXCEPT !.account[who].is_frozen = FALSE], "Ok", 0, << >>)

\* freeze_asset
FreezeAsset(s, origin) ==
    IF ~s.asset.exists THEN Outcome(s, "Unknown", 0, << >>)
    ELSE IF origin # s.asset.freezer THEN Outcome(s, "NoPermission", 0, << >>)
    ELSE Outcome([s EXCEPT !.asset.is_frozen = TRUE], "Ok", 0, << >>)

\* thaw_asset
ThawAsset(s, origin) ==
    IF ~s.asset.exists THEN Outcome(s, "Unknown", 0, << >>)
    ELSE IF origin # s.asset.admin THEN Outcome(s, "NoPermission", 0, << >>)
    ELSE Outcome([s EXCEPT !.asset.is_frozen = FALSE], "Ok", 0, << >>)

\* force_asset_status (the ForceOrigin check is the caller's).
ForceAssetStatus(s, owner, issuer, admin, freezer, min_balance, is_sufficient, is_frozen) ==
    IF ~s.asset.exists THEN Outcome(s, "Unknown", 0, << >>)
    ELSE Outcome([s EXCEPT !.asset.owner = owner, !.asset.issuer = issuer,
                           !.asset.admin = admin, !.asset.freezer = freezer,
                           !.asset.min_balance = min_balance,
                           !.asset.is_sufficient = is_sufficient,
                           !.asset.is_frozen = is_frozen],
                 "Ok", 0, << >>)

-----------------------------------------------------------------------------
(* Approvals *)

\* An approve_transfer that overwrites the approved amount.
ApproveReplacing(s, owner, delegate, amount) ==
    LET approved == s.approvals[<<owner, delegate>>]
        topup == ApprovalDeposit - approved.deposit
        paid == IF approved.deposit < ApprovalDeposit
                THEN Reserve(s, owner, topup) ELSE s
    IN  IF approved.deposit < ApprovalDeposit /\ ~CanReserve(s, owner, topup)
        THEN Outcome(s, "InsufficientBalance", 0, << >>)
        ELSE Outcome([paid EXCEPT !.approvals[<<owner, delegate>>] =
                         [exists |-> TRUE, amount |-> amount,
                          deposit |-> ApprovalDeposit]],
                     "Ok", 0, << >>)

\* approve_transfer
ApproveTransfer(s, owner, delegate, amount) ==
    LET approved == s.approvals[<<owner, delegate>>]
        topup == ApprovalDeposit - approved.deposit
        paid == IF approved.deposit < ApprovalDeposit
                THEN Reserve(s, owner, topup) ELSE s
        deposit == IF approved.deposit < ApprovalDeposit
                   THEN ApprovalDeposit ELSE approved.deposit
    IN  IF approved.deposit < ApprovalDeposit /\ ~CanReserve(s, owner, topup)
        THEN Outcome(s, "InsufficientBalance", 0, << >>)
        ELSE Outcome([paid EXCEPT !.approvals[<<owner, delegate>>] =
                         [exists |-> TRUE,
                          amount |-> SaturatingAdd(approved.amount, amount),
                          deposit |-> deposit]],
                     "Ok", 0, << >>)

\* A cancellation that removes the approval and keeps its deposit reserved.
CancelKeepingDeposit(s, owner, delegate) ==
    LET approval == s.approvals[<<owner, delegate>>]
    IN  IF ~approval.exists THEN Outcome(s, "Unknown", 0, << >>)
        ELSE Outcome([s EXCEPT !.approvals[<<owner, delegate>>] = NoApproval],
                     "Ok", 0, << >>)

\* cancel_approval
CancelApproval(s, owner, delegate) ==
    LET approval == s.approvals[<<owner, delegate>>]
    IN  IF ~approval.exists THEN Outcome(s, "Unknown", 0, << >>)
        ELSE Outcome([Unreserve(s, owner, approval.deposit) EXCEPT
                         !.approvals[<<owner, delegate>>] = NoApproval],
                     "Ok", 0, << >>)

\* force_cancel_approval; maybe_signer is << >> (ForceOrigin) or << signer >>.
ForceCancelApproval(s, maybe_signer, owner, delegate) ==
    IF maybe_signer # << >> /\ ~s.asset.exists THEN Outcome(s, "Unknown", 0, << >>)
    ELSE IF maybe_signer # << >> /\ maybe_signer[1] # s.asset.admin
         THEN Outcome(s, "NoPermission", 0, << >>)
    ELSE CancelApproval(s, owner, delegate)

\* A transfer_approved that writes the spent allowance before the transfer and
\* keeps it written when the transfer fails.
TransferApprovedEager(s, delegate, owner, destination, amount, fz) ==
    LET approved == s.approvals[<<owner, delegate>>]
        spent == [s EXCEPT !.approvals[<<owner, delegate>>].amount = @ - amount]
    IN  IF ~approved.exists THEN Outcome(s, "Unapproved", 0, << >>)
        ELSE IF approved.amount < amount THEN Outcome(s, "Unapproved", 0, << >>)
        ELSE DoTransfer(spent, owner, destination, amount, << >>, FALSE, "Respect",
                        FALSE, FALSE, fz)

\* A spend that charges the allowance although the transfer failed.
SpendChargingOnError(s, tr, owner, delegate, amount) ==
    LET approved == s.approvals[<<owner, delegate>>]
        remaining == approved.amount - amount
        base == IF tr.res = "Ok" THEN tr.st ELSE s
    IN  IF remaining = 0
        THEN Outcome([Unreserve(base, owner, approved.deposit) EXCEPT
                         !.approvals[<<owner, delegate>>] = NoApproval],
                     tr.res, tr.ret, tr.notes)
        ELSE Outcome([base EXCEPT !.approvals[<<owner, delegate>>].amount = remaining],
                     tr.res, tr.ret, tr.notes)

\* A spend that removes a used-up allowance and leaves its deposit reserved.
SpendKeepingDeposit(s, tr, owner, delegate, amount) ==
    LET approved == s.approvals[<<owner, delegate>>]
        remaining == approved.amount - amount
    IN  IF tr.res # "Ok" THEN Outcome(s, tr.res, 0, tr.notes)
        ELSE IF remaining = 0
             THEN Outcome([tr.st EXCEPT !.approvals[<<owner, delegate>>] = NoApproval],
                          "Ok", tr.ret, tr.notes)
        ELSE Outcome([tr.st EXCEPT !.approvals[<<owner, delegate>>].amount = remaining],
                     "Ok", tr.ret, tr.notes)

\* transfer_approved, from the return of do_transfer (outcome tr) on: the
\* error is passed on, a spent allowance is removed and its deposit
\* unreserved, any other is written back reduced.
SpendApproval(s, tr, owner, delegate, amount) ==
    LET approved == s.approvals[<<owner, delegate>>]
        remaining == approved.amount - amount
    IN  IF tr.res # "Ok" THEN Outcome(s, tr.res, 0, tr.notes)
        ELSE IF remaining = 0
             THEN Outcome([Unreserve(tr.st, owner, approved.deposit) EXCEPT
                              !.approvals[<<owner, delegate>>] = NoApproval],
                          "Ok", tr.ret, tr.notes)
        ELSE Outcome([tr.st EXCEPT !.approvals[<<owner, delegate>>].amount = remaining],
                     "Ok", tr.ret, tr.notes)

\* A transfer_approved that spends whatever is asked of an existing approval.
TransferApprovedUnchecked(s, delegate, owner, destination, amount, fz) ==
    LET approved == s.approvals[<<owner, delegate>>]
    IN  IF ~approved.exists THEN Outcome(s, "Unapproved", 0, << >>)
        ELSE SpendApproval(s,
                           DoTransfer(s, owner, destination, amount, << >>, FALSE,
                                      "Respect", FALSE, FALSE, fz),
                           owner, delegate, amount)

\* transfer_approved
TransferApproved(s, delegate, owner, destination, amount, fz) ==
    LET approved == s.approvals[<<owner, delegate>>]
    IN  IF ~approved.exists THEN Outcome(s, "Unapproved", 0, << >>)
        ELSE IF approved.amount < amount THEN Outcome(s, "Unapproved", 0, << >>)
        ELSE SpendApproval(s,
                           DoTransfer(s, owner, destination, amount, << >>, FALSE,
                                      "Respect", FALSE, FALSE, fz),
                           owner, delegate, amount)

-----------------------------------------------------------------------------
(* The extra payload of an account *)

\* The largest value of the opaque T::Extra; the default is 0.
MaxExtra == 1

Extras == 0 .. MaxExtra

\* What the closure given to StoredMap::try_mutate_exists does: it returns an
\* error, leaves a value to be written, or asks for the extra to be deleted.
Requests == {"fail", "write", "delete"}

\* The pending value of an ExtraMutator: None until deref_mut is used.
Pendings == {NoneB} \cup {SomeB(x) : x \in Extras}

\* A try_mutate_exists that creates the record it is asked to write to.
TryMutateCreating(s, who, request, extra) ==
    IF request = "fail" THEN Outcome(s, "ClosureError", 0, << >>)
    ELSE IF request = "write"
         THEN Outcome([s EXCEPT !.account[who].exists = TRUE,
                                !.account[who].extra = extra], "Ok", 0, << >>)
    ELSE IF s.account[who].exists THEN Outcome(s, "ConsumerRemaining", 0, << >>)
    ELSE Outcome(s, "Ok", 0, << >>)

\* StoredMap::try_mutate_exists for (id, who)
TryMutateExists(s, who, request, extra) ==
    IF request = "fail" THEN Outcome(s, "ClosureError", 0, << >>)
    ELSE IF request = "write"
         THEN IF s.account[who].exists
              THEN Outcome([s EXCEPT !.account[who].extra = extra], "Ok", 0, << >>)
              ELSE Outcome(s, "NoProviders", 0, << >>)
    ELSE IF s.account[who].exists THEN Outcome(s, "ConsumerRemaining", 0, << >>)
    ELSE Outcome(s, "Ok", 0, << >>)

\* ExtraMutator::commit; the error type is ().
Commit(s, who, pending) ==
    IF ~IsSome(pending) THEN Outcome(s, "Ok", 0, << >>)
    ELSE IF s.account[who].exists
         THEN Outcome([s EXCEPT !.account[who].extra = Unwrap(pending)], "Ok", 0, << >>)
    ELSE Outcome(s, "Err", 0, << >>)

\* Drop for ExtraMutator: a commit whose failure is a debug assertion
\* ("attempt to write to non-existent asset account", site 7).
DropMutator(s, who, pending) ==
    Outcome(Commit(s, who, pending).st, "Ok", 0,
            CheckedInPrep(Commit(s, who, pending).res = "Ok", who, 7))

\* ExtraMutator::revert(self): writes the original back, and then the mutator
\* it has consumed is dropped with its pending value still in place.
Revert(s, who, original, pending) ==
    IF s.account[who].exists
    THEN Outcome(DropMutator([s EXCEPT !.account[who].extra = original], who, pending).st,
                 "Ok", 0, << >>)
    ELSE Outcome(s, "Err", 0, DropMutator(s, who, pending).notes)

-----------------------------------------------------------------------------
(* The state machine *)

\* The arguments of a call; a call leaves those it does not take as they are here.
NoArgs ==
    [origin |-> << >>, who |-> "h1", dest |-> "h1", delegate |-> "h1",
     amount |-> 0, keep_alive |-> FALSE, respect_frozen |-> "Respect",
     best_effort |-> FALSE, burn_dust |-> FALSE, fz |-> NoneB,
     min_balance |-> 0, is_sufficient |-> FALSE, is_frozen |-> FALSE,
     witness |-> [accounts |-> 0, sufficients |-> 0, approvals |-> 0],
     request |-> "write", extra |-> 0, pending |-> NoneB]

NoCall ==
    [op |-> "none", args |-> NoArgs, pre |-> << >>, res |-> "Ok", ret |-> 0,
     notes |-> << >>, created |-> << >>, headroom |-> 0]

\* What the holders can reserve from: h1 can pay for one approval, h2 for none.
InitialFree == [h \in Holders |-> IF h = "h1" THEN ApprovalDeposit ELSE 0]

\* The state after construction: nothing is stored.  Whether h2 has a provider
\* reference is the environment's choice; h1 has one.
Init ==
    /\ asset = NoAsset
    /\ account = [h \in Holders |-> DefaultAccount]
    /\ approvals = [k \in Holders \X Holders |-> NoApproval]
    /\ free = InitialFree
    /\ reserved = [h \in Holders |-> 0]
    /\ providers \in {[h \in Holders |-> 1],
                      [h \in Holders |-> IF h = "h1" THEN 1 ELSE 0]}
    /\ consumers = [h \in Holders |-> 0]
    /\ sufficients = [h \in Holders |-> 0]
    /\ pc = "idle"
    /\ call = NoCall

\* A call of `op` with `args` runs to its end from an idle state and leaves
\* the outcome `out` (bound to o, so that it is computed once).
Returns(op, args, out) ==
    /\ pc = "idle"
    /\ \E o \in {out} :
          /\ \A h \in Holders : /\ o.st.consumers[h] <= MaxRefs
                                /\ o.st.sufficients[h] <= MaxRefs
          /\ pc' = "ret"
          /\ call' = [op |-> op, args |-> args, pre |-> Cur, res |-> o.res,
                      ret |-> o.ret, notes |-> o.notes, created |-> call.created,
                      headroom |-> call.headroom]
          /\ asset' = o.st.asset
          /\ account' = o.st.account
          /\ approvals' = o.st.approvals
          /\ free' = o.st.free
          /\ reserved' = o.st.reserved
          /\ providers' = o.st.providers
          /\ consumers' = o.st.consumers
          /\ sufficients' = o.st.sufficients

\* The approval key a call has created a record for: << key >> after an
\* approve_transfer that succeeded where no approval was, << >> otherwise.
CreatedBy(c) ==
    IF /\ c.op = "approve_transfer" /\ c.res = "Ok"
       /\ ~c.pre.approvals[<< c.args.who, c.args.delegate >>].exists
    THEN << << c.args.who, c.args.delegate >> >>
    ELSE << >>

\* The caller has seen the result.
Return ==
    /\ pc = "ret"
    /\ pc' = "idle"
    /\ call' = NoCall
    /\ UNCHANGED << asset, account, approvals, free, reserved, providers,
                    consumers, sufficients >>

\* The same step, keeping for the next call the one fact that the call just
\* finished created an approval (field `created`): what a caller who issues
\* approve_transfer and then transfer_approved knows.
ReturnNoting ==
    /\ pc = "ret"
    /\ pc' = "idle"
    /\ call' = [NoCall EXCEPT !.created = CreatedBy(call)]
    /\ UNCHANGED << asset, account, approvals, free, reserved, providers,
                    consumers, sufficients >>

\* The pair of owner and delegate whose approvals and spends are tallied.
TalliedKey == << "h1", "h2" >>

\* The largest tally followed, in either direction.
MaxHeadroom == MaxBalance

\* What a finished call adds to the amount the owner has approved for the
\* delegate and not yet lost to the delegate's spends: the amount of a
\* successful approve_transfer, minus what a successful transfer_approved has
\* taken off the owner's balance.
Gain(c, s) ==
    IF c.res # "Ok" \/ << c.args.who, c.args.delegate >> # TalliedKey THEN 0
    ELSE IF c.op = "approve_transfer" THEN c.args.amount
    ELSE IF c.op = "transfer_approved"
         THEN s.account[c.args.who].balance - c.pre.account[c.args.who].balance
    ELSE 0

\* The caller has seen the result, and the tally of approvals and spends
\* (field `headroom`) is brought up to date.
ReturnTallying ==
    /\ pc = "ret"
    /\ call.headroom + Gain(call, Cur) \in -MaxHeadroom .. MaxHeadroom
    /\ pc' = "idle"
    /\ call' = [NoCall EXCEPT !.headroom = call.headroom + Gain(call, Cur)]
    /\ UNCHANGED << asset, account, approvals, free, reserved, providers,
                    consumers, sufficients >>

MaybeHolder == {<< >>} \cup {<< h >> : h \in Holders}

Witnesses == [accounts : 0 .. 2, sufficients : 0 .. 2, approvals : 0 .. 1]

(* The dispatchables and the fungibles functions of the pallet *)

CallForceCreate ==
    \E owner \in Owners, is_sufficient \in BOOLEAN, min_balance \in Balances :
        Returns("force_create",
                [NoArgs EXCEPT !.who = owner, !.is_sufficient = is_sufficient,
                               !.min_balance = min_balance],
                ForceCreate(Cur, owner, is_sufficient, min_balance))

CallDestroy ==
    \E origin \in MaybeHolder, witness \in Witnesses :
        Returns("destroy", [NoArgs EXCEPT !.origin = origin, !.witness = witness],
                Destroy(Cur, origin, witness))

CallMint ==
    \E origin \in MaybeHolder, beneficiary \in Holders, amount \in Balances :
        Returns("mint",
                [NoArgs EXCEPT !.origin = origin, !.who = beneficiary,
                               !.amount = amount],
                DoMint(Cur, beneficiary, amount, origin))

\* burn: do_burn(.., Some(origin), false, Ignore, true)
CallBurn ==
    \E origin \in Holders, who \in Holders, amount \in Balances, fz \in FrozenAnswers :
        Returns("burn",
                [NoArgs EXCEPT !.origin = << origin >>, !.who = who,
                               !.amount = amount, !.respect_frozen = "Ignore",
                               !.best_effort = TRUE, !.fz = fz],
                DoBurn(Cur, who, amount, << origin >>, FALSE, "Ignore", TRUE, fz))

\* burn_from: do_burn(.., None, false, Respect, false)
\* slash:     do_burn(.., None, false, Respect, true)
CallBurnFrom ==
    \E who \in Holders, amount \in Balances, best_effort \in BOOLEAN,
       fz \in FrozenAnswers :
        Returns("burn_from",
                [NoArgs EXCEPT !.who = who, !.amount = amount,
                               !.best_effort = best_effort, !.fz = fz],
                DoBurn(Cur, who, amount, << >>, FALSE, "Respect", best_effort, fz))

\* transfer:            do_transfer(.., None, false, Respect, false, false)
\* transfer_keep_alive: do_transfer(.., None, true, Respect, false, false)
CallTransfer ==
    \E source \in Holders, dest \in Holders, amount \in Balances,
       keep_alive \in BOOLEAN, fz \in FrozenAnswers :
        Returns("transfer",
                [NoArgs EXCEPT !.origin = << source >>, !.who = source,
                               !.dest = dest, !.amount = amount,
                               !.keep_alive = keep_alive, !.fz = fz],
                DoTransfer(Cur, source, dest, amount, << >>, keep_alive,
                           "Respect", FALSE, FALSE, fz))

\* force_transfer: do_transfer(.., Some(origin), false, Ignore, false, false)
CallForceTransfer ==
    \E origin \in Holders, source \in Holders, dest \in Holders,
       amount \in Balances, fz \in FrozenAnswers :
        Returns("force_transfer",
                [NoArgs EXCEPT !.origin = << origin >>, !.who = source,
                               !.dest = dest, !.amount = amount,
                               !.respect_frozen = "Ignore", !.fz = fz],
                DoTransfer(Cur, source, dest, amount, << origin >>, FALSE,
                           "Ignore", FALSE, FALSE, fz))

CallFreeze ==
    \E origin \in Holders, who \in Holders :
        Returns("freeze", [NoArgs EXCEPT !.origin = << origin >>, !.who = who],
                Freeze(Cur, origin, who))

CallThaw ==
    \E origin \in Holders, who \in Holders :
        Returns("thaw", [NoArgs EXCEPT !.origin = << origin >>, !.who = who],
                Thaw(Cur, origin, who))

CallFreezeAsset ==
    \E origin \in Holders :
        Returns("freeze_asset", [NoArgs EXCEPT !.origin = << origin >>],
                FreezeAsset(Cur, origin))

CallThawAsset ==
    \E origin \in Holders :
        Returns("thaw_asset", [NoArgs EXCEPT !.origin = << origin >>],
                ThawAsset(Cur, origin))

CallForceAssetStatus ==
    \E team \in Owners, min_balance \in Balances, is_sufficient \in {FALSE},
       is_frozen \in BOOLEAN :
        Returns("force_asset_status",
                [NoArgs EXCEPT !.who = team, !.min_balance = min_balance,
                               !.is_sufficient = is_sufficient,
                               !.is_frozen = is_frozen],
                ForceAssetStatus(Cur, team, team, team, team, min_balance,
                                 is_sufficient, is_frozen))

CallApproveTransfer ==
    \E owner \in Holders, delegate \in Delegates, amount \in Balances :
        Returns("approve_transfer",
                [NoArgs EXCEPT !.origin = << owner >>, !.who = owner,
                               !.delegate = delegate, !.amount = amount],
                ApproveTransfer(Cur, owner, delegate, amount))

CallCancelApproval ==
    \E owner \in Holders, delegate \in Holders :
        Returns("cancel_approval",
                [NoArgs EXCEPT !.origin = << owner >>, !.who = owner,
                               !.delegate = delegate],
                CancelApproval(Cur, owner, delegate))

CallForceCancelApproval ==
    \E origin \in MaybeHolder, owner \in Holders, delegate \in Holders :
        Returns("force_cancel_approval",
                [NoArgs EXCEPT !.origin = origin, !.who = owner,
                               !.delegate = delegate],
                ForceCancelApproval(Cur, origin, owner, delegate))

CallTransferApproved ==
    \E delegate \in Holders, owner \in Holders, destination \in Holders,
       amount \in Balances, fz \in FrozenAnswers :
        Returns("transfer_approved",
                [NoArgs EXCEPT !.origin = << delegate >>, !.who = owner,
                               !.dest = destination, !.delegate = delegate,
                               !.amount = amount, !.fz = fz],
                TransferApproved(Cur, delegate, owner, destination, amount, fz))

\* StoredMap::try_mutate_exists, as the freezer pallet calls it
CallTryMutateExists ==
    \E who \in Holders, request \in Requests, extra \in Extras :
        Returns("try_mutate_exists",
                [NoArgs EXCEPT !.who = who, !.request = request, !.extra = extra],
                TryMutateExists(Cur, who, request, extra))

\* ExtraMutator::commit on a mutator holding any pending value
CallCommit ==
    \E who \in Holders, pending \in Pendings :
        Returns("commit", [NoArgs EXCEPT !.who = who, !.pending = pending],
                Commit(Cur, who, pending))

\* ExtraMutator::revert on a mutator holding any original and pending value
CallRevert ==
    \E who \in Holders, original \in Extras, pending \in Pendings :
        Returns("revert",
                [NoArgs EXCEPT !.who = who, !.extra = original, !.pending = pending],
                Revert(Cur, who, original, pending))

\* An ExtraMutator going out of scope
CallDropMutator ==
    \E who \in Holders, pending \in Pendings :
        Returns("drop", [NoArgs EXCEPT !.who = who, !.pending = pending],
                DropMutator(Cur, who, pending))

(* The engine functions, with every combination of their flags *)

\* do_burn without the origin check
CallDoBurn ==
    \E who \in Holders, amount \in Balances, keep_alive \in BOOLEAN,
       respect_frozen \in RespectFrozen, best_effort \in BOOLEAN,
       fz \in FrozenAnswers :
        Returns("do_burn",
                [NoArgs EXCEPT !.who = who, !.amount = amount,
                               !.keep_alive = keep_alive,
                               !.respect_frozen = respect_frozen,
                               !.best_effort = best_effort, !.fz = fz],
                DoBurn(Cur, who, amount, << >>, keep_alive, respect_frozen,
                       best_effort, fz))

\* do_transfer without the origin check
CallDoTransfer ==
    \E source \in Holders, dest \in Holders, amount \in Balances,
       keep_alive \in BOOLEAN, respect_frozen \in RespectFrozen,
       best_effort \in BOOLEAN, burn_dust \in BOOLEAN, fz \in FrozenAnswers :
        Returns("do_transfer",
                [NoArgs EXCEPT !.who = source, !.dest = dest, !.amount = amount,
                               !.keep_alive = keep_alive,
                               !.respect_frozen = respect_frozen,
                               !.best_effort = best_effort,
                               !.burn_dust = burn_dust, !.fz = fz],
                DoTransfer(Cur, source, dest, amount, << >>, keep_alive,
                           respect_frozen, best_effort, burn_dust, fz))

\* The calls every specification has: the asset's lifecycle and mint.
Base ==
    \/ CallForceCreate
    \/ CallDestroy
    \/ CallMint
    \/ Return

Next ==
    \/ Base
    \/ CallBurn
    \/ CallBurnFrom
    \/ CallTransfer
    \/ CallForceTransfer
    \/ CallFreeze
    \/ CallThaw
    \/ CallFreezeAsset
    \/ CallThawAsset

\* The pallet as its callers drive it: the dispatchables of the balance
\* ledger and the fungibles functions.
Spec == Init /\ [][Next]_vars

NextEngine ==
    \/ Base
    \/ CallDoBurn
    \/ CallDoTransfer

\* The engine functions do_mint, do_burn and do_transfer called with every
\* combination of flags, on the ledgers the lifecycle calls produce.
SpecEngine == Init /\ [][NextEngine]_vars

NextApprovals ==
    \/ Base
    \/ CallBurn
    \/ CallTransfer
    \/ CallApproveTransfer
    \/ CallCancelApproval
    \/ CallForceCancelApproval
    \/ CallTransferApproved

\* The ledger with the approval calls.
SpecApprovals == Init /\ [][NextApprovals]_vars

NextForce ==
    \/ CallForceCreate
    \/ CallMint
    \/ CallBurn
    \/ CallForceAssetStatus
    \/ Return

\* The ledger with force_asset_status.
SpecForce == Init /\ [][NextForce]_vars

\* Approvals made and spent back to back: the calls a delegate and an owner
\* issue, each return remembering whether an approval was just created.
NextRoundTrip ==
    \/ CallForceCreate
    \/ CallDestroy
    \/ CallMint
    \/ CallApproveTransfer
    \/ CallCancelApproval
    \/ CallTransferApproved
    \/ ReturnNoting

SpecRoundTrip == Init /\ [][NextRoundTrip]_vars

NextExtra ==
    \/ CallForceCreate
    \/ CallMint
    \/ CallBurn
    \/ CallTransfer
    \/ CallTryMutateExists
    \/ CallCommit
    \/ CallRevert
    \/ CallDropMutator
    \/ Return

\* The ledger with the writes to the extra payload of its accounts.
SpecExtra == Init /\ [][NextExtra]_vars

NextAllowance ==
    \/ CallForceCreate
    \/ CallMint
    \/ CallApproveTransfer
    \/ CallCancelApproval
    \/ CallTransferApproved
    \/ ReturnTallying

\* An owner approving and a delegate spending, with the running difference
\* between what was approved and what the spends have debited.
SpecAllowance == Init /\ [][NextAllowance]_vars

\* Approvals spent, and the admin's transfers, on frozen accounts and assets.
NextFrozen ==
    \/ CallForceCreate
    \/ CallMint
    \/ CallFreeze
    \/ CallThaw
    \/ CallFreezeAsset
    \/ CallThawAsset
    \/ CallForceTransfer
    \/ CallApproveTransfer
    \/ CallTransferApproved
    \/ Return

SpecFrozen == Init /\ [][NextFrozen]_vars

-----------------------------------------------------------------------------
(* The admissibility functions on their own *)

\* What can_increase, can_decrease and decreasable_balance read: the asset's
\* details, the holder's account and provider count, the hook's answer.  They
\* are functions of these values alone, so the values are drawn freely here,
\* those no sequence of calls stores (a supply below a balance) included.
StoredDetails ==
    {NoAsset} \cup
    {[NoAsset EXCEPT !.exists = TRUE, !.supply = su, !.min_balance = m,
                     !.is_frozen = f, !.is_sufficient = i, !.sufficients = c]
        : su \in Balances, m \in Balances, f \in BOOLEAN, i \in BOOLEAN,
          c \in {0, MaxCount}}

StoredAccounts ==
    {[exists |-> b > 0, balance |-> b, is_frozen |-> f, sufficient |-> FALSE,
      extra |-> 0]
        : b \in Balances, f \in BOOLEAN}

\* frozen_balance(id, who): None, or Some of a non-zero amount.
FrozenInputs == {NoneB} \cup {SomeB(f) : f \in 1 .. MaxBalance}

InitAdmit ==
    /\ asset \in StoredDetails
    /\ account \in {[h \in Holders |-> IF h = "h1" THEN a ELSE DefaultAccount]
                      : a \in StoredAccounts}
    /\ approvals = [k \in Holders \X Holders |-> NoApproval]
    /\ free = InitialFree
    /\ reserved = [h \in Holders |-> 0]
    /\ providers \in {[h \in Holders |-> 1], [h \in Holders |-> 0]}
    /\ consumers = [h \in Holders |-> 0]
    /\ sufficients = [h \in Holders |-> 0]
    /\ pc = "idle"
    /\ call = NoCall

\* A function that only reads is asked and answers: nothing is written.
Asks(op, args, answer) ==
    /\ pc = "idle"
    /\ pc' = "ret"
    /\ call' = [op |-> op, args |-> args, pre |-> Cur, res |-> "Ok",
                ret |-> answer, notes |-> << >>, created |-> call.created,
                headroom |-> call.headroom]
    /\ UNCHANGED << asset, account, approvals, free, reserved, providers,
                    consumers, sufficients >>

CallCanIncrease ==
    \E amount \in Balances :
        Asks("can_increase", [NoArgs EXCEPT !.who = "h1", !.amount = amount],
             CanIncrease(Cur, "h1", amount))

CallCanDecrease ==
    \E amount \in Balances, keep_alive \in BOOLEAN,
       respect_frozen \in RespectFrozen, fz \in FrozenInputs :
        Asks("can_decrease",
             [NoArgs EXCEPT !.who = "h1", !.amount = amount,
                            !.keep_alive = keep_alive,
                            !.respect_frozen = respect_frozen, !.fz = fz],
             CanDecrease(Cur, "h1", amount, keep_alive, respect_frozen, fz))

CallDecreasableBalance ==
    \E keep_alive \in BOOLEAN, respect_frozen \in RespectFrozen, fz \in FrozenInputs :
        Asks("decreasable_balance",
             [NoArgs EXCEPT !.who = "h1", !.keep_alive = keep_alive,
                            !.respect_frozen = respect_frozen, !.fz = fz],
             DecreasableBalance(Cur, "h1", keep_alive, respect_frozen, fz))

NextAdmit ==
    \/ CallCanIncrease
    \/ CallCanDecrease
    \/ CallDecreasableBalance
    \/ Return

SpecAdmit == InitAdmit /\ [][NextAdmit]_vars

-----------------------------------------------------------------------------
(* Properties *)

\* The sum of the balances of the records of accounts acc, from the i-th holder on.
RECURSIVE SumBalances(_, _)
SumBalances(acc, i) ==
    IF i > Len(HolderOrder) THEN 0
    ELSE (IF acc[HolderOrder[i]].exists THEN acc[HolderOrder[i]].balance ELSE 0)
            + SumBalances(acc, i + 1)

\* The records that exist, and those of them that are self-sufficient.
LiveRecords == {h \in Holders : account[h].exists}

SufficientRecords == {h \in LiveRecords : account[h].sufficient}

\* The notes of the last call of kind k about holder h.
NotesOf(k, h) == {i \in DOMAIN call.notes : call.notes[i].k = k /\ call.notes[i].who = h}

\* C1: supply conservation.  In every state reached by mint, burn and transfer
\* calls with any combination of flags, succeeding or failing, the supply of the
\* asset equals the sum of the balances of its account records.
C1_SupplyConservation == asset.supply = SumBalances(account, 1)

\* C1's case: a transfer with burn_dust has succeeded and burnt dust, so the
\* supply went down while balances moved.
C1_Witness ==
    /\ pc = "ret" /\ call.op = "do_transfer" /\ call.res = "Ok"
    /\ call.args.burn_dust
    /\ asset.supply < call.pre.asset.supply
    /\ asset.supply > 0

\* C2: no sub-minimum dust.  No account record has a balance strictly between
\* zero and the asset's minimum balance, and no debug assertion on the balance
\* a burn or transfer leaves (a balance below the minimum is zero) fails.
C2_NoDust ==
    /\ \A h \in Holders :
          account[h].exists =>
              ~(0 < account[h].balance /\ account[h].balance < asset.min_balance)
    /\ \A i \in DOMAIN call.notes :
          ~(call.notes[i].k = "debug_assert" /\ call.notes[i].arg = 2)

\* C2, the state the claim excludes: force_asset_status has raised the minimum
\* balance above the balance of a record that stays.
C2_DustAfterStatus ==
    /\ pc = "ret" /\ call.op = "force_asset_status" /\ call.res = "Ok"
    /\ \E h \in Holders :
          /\ account[h].exists
          /\ 0 < account[h].balance /\ account[h].balance < asset.min_balance
          /\ call.pre.asset.min_balance <= account[h].balance

\* C3: counter exactness.  After every operation the asset's account count is
\* the number of its account records, its sufficient count the number of those
\* that are self-sufficient, and the sufficient count is at most the account
\* count.
C3_CounterExactness ==
    asset.exists =>
        /\ asset.accounts = Cardinality(LiveRecords)
        /\ asset.sufficients = Cardinality(SufficientRecords)
        /\ asset.sufficients <= asset.accounts

\* C3, the state the claim excludes: a burn aimed at a holder without a record
\* has succeeded and taken one off the account count.
C3_BurnOfDeadHolder ==
    /\ pc = "ret" /\ call.op = "burn" /\ call.res = "Ok"
    /\ ~call.pre.account[call.args.who].exists
    /\ call.pre.asset.accounts = Cardinality({h \in Holders : call.pre.account[h].exists})
    /\ asset.accounts < Cardinality(LiveRecords)

\* C4: reference-count symmetry.  A call increments a holder's reference count
\* only when it creates the holder's record, in the class the record's flag
\* then names; a call that destroys a record decrements that holder's count
\* exactly once, in the class of the record's flag; and no call decrements the
\* count of a holder who had no record.
C4_RefCountSymmetry ==
    pc = "ret" =>
        \A h \in Holders :
            LET before == call.pre.account[h]
                incs == NotesOf("inc_sufficients", h) \cup NotesOf("inc_consumers", h)
                decs == NotesOf("dec_sufficients", h) \cup NotesOf("dec_consumers", h)
                created == ~before.exists /\ account[h].exists
                destroyed == before.exists /\ ~account[h].exists
            IN  /\ Cardinality(incs) = (IF created THEN 1 ELSE 0)
                /\ created =>
                      (NotesOf("inc_sufficients", h) # {}) = account[h].sufficient
                /\ Cardinality(decs) = (IF destroyed THEN 1 ELSE 0)
                /\ destroyed =>
                      (NotesOf("dec_sufficients", h) # {}) = before.sufficient

\* C4, the state the claim excludes: a burn has decremented the consumer count
\* of a holder who had no record, so no increment to match.
C4_DecrementWithoutRecord ==
    /\ pc = "ret" /\ call.op = "burn" /\ call.res = "Ok"
    /\ ~call.pre.account[call.args.who].exists
    /\ NotesOf("dec_consumers", call.args.who) # {}

\* The records a failing call must leave alone: asset, accounts, approvals and
\* the holders' reference counts.
Records(s) ==
    [asset |-> s.asset, account |-> s.account, approvals |-> s.approvals,
     providers |-> s.providers, consumers |-> s.consumers,
     sufficients |-> s.sufficients]

\* C5: no partial commit.  A mint, burn, transfer, approve, spend, cancel or
\* destroy call that returns an error leaves the asset record, the account
\* records, the approval records and the holders' reference counts as they
\* were before the call.
C5_NoPartialCommit ==
    (/\ pc = "ret"
     /\ call.op \in {"mint", "burn", "transfer", "approve_transfer",
                     "transfer_approved", "cancel_approval",
                     "force_cancel_approval", "destroy"}
     /\ call.res # "Ok")
        => Records(Cur) = Records(call.pre)

\* C5's case: a spend within the allowance has failed in the transfer itself.
C5_Witness ==
    /\ pc = "ret" /\ call.op = "transfer_approved"
    /\ call.args.amount > 0
    /\ call.pre.approvals[<<call.args.who, call.args.delegate>>].exists
    /\ call.pre.approvals[<<call.args.who, call.args.delegate>>].amount
          >= call.args.amount
    /\ call.res \notin {"Ok", "Unapproved"}
    /\ Records(Cur) = Records(call.pre)

\* C6: account existence.  A holder has an account record exactly when the
\* holder's balance is not zero: no call leaves a record with balance zero.
C6_RecordIffBalance ==
    \A h \in Holders : account[h].exists <=> account[h].balance # 0

\* C6, the state the claim excludes: after force_asset_status has set the
\* minimum balance to zero, a burn of a whole balance leaves the record.
C6_ZeroBalanceRecord ==
    /\ pc = "ret" /\ call.op = "burn" /\ call.res = "Ok"
    /\ asset.min_balance = 0
    /\ call.pre.account[call.args.who].balance > 0
    /\ account[call.args.who].exists
    /\ account[call.args.who].balance = 0

\* The last call is a transfer that is not best-effort, with keep_alive and
\* burn_dust as given, between distinct holders.
PlainTransfer(keep_alive) ==
    /\ pc = "ret" /\ call.op \in {"transfer", "do_transfer"}
    /\ ~call.args.best_effort /\ ~call.args.burn_dust
    /\ call.args.keep_alive = keep_alive
    /\ call.args.who # call.args.dest

\* What the source of the last call held before it.
SourceBalance == call.pre.account[call.args.who].balance

\* C7: dust sweep.  A transfer that is not best-effort, with keep_alive and
\* burn_dust false, between distinct holders, whose amount would leave the
\* source strictly between zero and the minimum balance, and that is carried
\* out, moves the whole source balance: the source record is deleted, the
\* destination is credited with all the source held, and that is the amount
\* returned.
C7_DustSweep ==
    (/\ PlainTransfer(FALSE)
     /\ 0 < SourceBalance - call.args.amount
     /\ SourceBalance - call.args.amount < call.pre.asset.min_balance
     /\ call.res = "Ok")
        => /\ ~account[call.args.who].exists
           /\ account[call.args.dest].balance
                 = call.pre.account[call.args.dest].balance + SourceBalance
           /\ call.ret = SourceBalance

\* C7's case: such a transfer has been carried out and has returned more than
\* the amount asked.
C7_Witness ==
    /\ PlainTransfer(FALSE)
    /\ 0 < SourceBalance - call.args.amount
    /\ SourceBalance - call.args.amount < call.pre.asset.min_balance
    /\ call.res = "Ok"
    /\ call.ret > call.args.amount
    /\ account[call.args.dest].exists

\* The last call is a keep-alive transfer of a non-zero amount the source
\* covers but that would leave it below the minimum balance, from an account
\* that nothing freezes.
KeepAliveCase ==
    /\ PlainTransfer(TRUE)
    /\ call.pre.asset.exists
    /\ ~call.pre.asset.is_frozen
    /\ ~call.pre.account[call.args.who].is_frozen
    /\ call.args.fz = NoneB
    /\ 0 < call.args.amount
    /\ call.args.amount <= SourceBalance
    /\ SourceBalance - call.args.amount < call.pre.asset.min_balance

\* C8: keep-alive rejection.  A keep-alive transfer that is not best-effort,
\* whose amount the source covers but that would leave the source below the
\* minimum balance, fails with the error WouldDie and changes nothing.
C8_KeepAliveRejection ==
    KeepAliveCase =>
        /\ call.res \in {"WouldDie", "Token.WouldDie"}
        /\ Cur = call.pre

\* C8, what the code does in that case: it fails with BalanceLow, changing
\* nothing.
C8_FailsWithBalanceLow ==
    /\ KeepAliveCase
    /\ call.res = "BalanceLow"
    /\ Cur = call.pre

\* The decreasable balance of the target of the last call, before it.
Decreasable ==
    DecreasableBalance(call.pre, call.args.who, call.args.keep_alive,
                       call.args.respect_frozen, call.args.fz)

\* The last call is a best-effort burn of more than the decreasable balance of
\* its target, on an asset that exists with nothing frozen.
BestEffortCase ==
    /\ pc = "ret" /\ call.op \in {"do_burn", "burn", "burn_from"}
    /\ call.args.best_effort
    /\ Decreasable.err = "Ok"
    /\ call.args.amount > 0
    /\ call.args.amount > Decreasable.val

\* C9: best-effort burn cap.  A best-effort burn of a non-zero amount above the
\* target's decreasable balance returns no error: it takes exactly the
\* decreasable balance off the target and off the supply and returns it.
C9_BestEffortCap ==
    BestEffortCase =>
        /\ call.res = "Ok"
        /\ call.ret = Decreasable.val
        /\ account[call.args.who].balance
              = call.pre.account[call.args.who].balance - Decreasable.val
        /\ asset.supply = call.pre.asset.supply - Decreasable.val

\* C9, what the code does when the target's balance is below the frozen amount
\* plus the minimum: the burn fails with TokenError::Frozen on the debug
\* assertion of prep_debit.
C9_BestEffortFails ==
    /\ BestEffortCase
    /\ ~call.args.keep_alive
    /\ call.args.respect_frozen = "Respect"
    /\ call.pre.account[call.args.who].exists
    /\ call.res = "Token.Frozen"
    /\ NotesOf("debug_assert", call.args.who) # {}

BurnOfDeadCase ==
    /\ pc = "ret" /\ call.op = "burn"
    /\ call.pre.asset.exists
    /\ call.args.origin = << call.pre.asset.admin >>
    /\ call.args.amount > 0
    /\ ~call.pre.account[call.args.who].exists

\* C11: a burn on a holder who is already dead (has no account record) fails
\* with BalanceZero and changes nothing: not the account count, not the
\* holder's reference counts, not the supply.
C11_BurnOfDeadFails ==
    BurnOfDeadCase =>
        /\ call.res = "BalanceZero"
        /\ Cur = call.pre
        /\ call.notes = << >>

\* C11, what the code does: the burn returns Ok having burnt nothing, and has
\* run dead_account for the holder.
C11_BurnOfDeadReturnsOk ==
    /\ BurnOfDeadCase
    /\ call.res = "Ok" /\ call.ret = 0
    /\ asset.supply = call.pre.asset.supply
    /\ NotesOf("died", call.args.who) # {}

\* The approval key (owner, delegate) of the last call, and its record before
\* and after the call.
CallKey == << call.args.who, call.args.delegate >>

ApprovalBefore == call.pre.approvals[CallKey]

ApprovalAfter == approvals[CallKey]

\* C12: no approval record with amount zero exists in any reachable state,
\* whatever the amounts (zero included) of the approve, spend and cancel calls.
C12_NoZeroApproval ==
    \A k \in Holders \X Holders : approvals[k].exists => approvals[k].amount # 0

\* C12, the state the claim excludes: an approve of amount 0 on an absent
\* approval has created a record with amount 0 and reserved the deposit.
C12_ZeroApprovalCreated ==
    /\ pc = "ret" /\ call.op = "approve_transfer" /\ call.res = "Ok"
    /\ call.args.amount = 0
    /\ ~ApprovalBefore.exists
    /\ ApprovalAfter.exists /\ ApprovalAfter.amount = 0
    /\ reserved[call.args.who] = call.pre.reserved[call.args.who] + ApprovalDeposit

\* A transfer_approved that returned Ok, issued right after the approve_transfer
\* that created the approval it spends.
RoundTripCase ==
    /\ pc = "ret" /\ call.op = "transfer_approved" /\ call.res = "Ok"
    /\ call.created = << CallKey >>

\* C13: approve(n) on an absent approval followed by a successful spend(n)
\* leaves the approval absent and gives the owner back exactly the deposit the
\* approve reserved; followed by a successful spend(k), 0 < k < n, it leaves
\* the approval with n - k and the deposit still reserved.
C13_RoundTrip ==
    RoundTripCase =>
        /\ ApprovalBefore.exists /\ ApprovalBefore.deposit = ApprovalDeposit
        /\ call.args.amount = ApprovalBefore.amount =>
              /\ ~ApprovalAfter.exists
              /\ reserved[call.args.who] = call.pre.reserved[call.args.who] - ApprovalDeposit
              /\ free[call.args.who] = call.pre.free[call.args.who] + ApprovalDeposit
        /\ (0 < call.args.amount /\ call.args.amount < ApprovalBefore.amount) =>
              /\ ApprovalAfter = [exists |-> TRUE,
                                  amount |-> ApprovalBefore.amount - call.args.amount,
                                  deposit |-> ApprovalDeposit]
              /\ reserved[call.args.who] = call.pre.reserved[call.args.who]
              /\ free[call.args.who] = call.pre.free[call.args.who]

C13_Witness ==
    /\ RoundTripCase
    /\ call.args.amount = ApprovalBefore.amount /\ call.args.amount > 0
    /\ ~ApprovalAfter.exists
    /\ reserved[call.args.who] < call.pre.reserved[call.args.who]

SpendCase == pc = "ret" /\ call.op = "transfer_approved"

\* The spend asks for more than is approved, or nothing is approved.
Overspend == ~ApprovalBefore.exists \/ call.args.amount > ApprovalBefore.amount

\* C14: a spend of an absent approval, or of more than the approved total,
\* fails with Unapproved and leaves approvals and balances as they were; any
\* other spend gets past that check, and when it goes through it leaves
\* total - amount approved if amount < total and no approval if amount = total.
C14_Spend ==
    SpendCase =>
        /\ Overspend => call.res = "Unapproved" /\ Cur = call.pre
        /\ ~Overspend => call.res # "Unapproved"
        /\ (~Overspend /\ call.res = "Ok") =>
              IF call.args.amount < ApprovalBefore.amount
              THEN ApprovalAfter = [ApprovalBefore EXCEPT !.amount = @ - call.args.amount]
              ELSE ~ApprovalAfter.exists

C14_Witness ==
    /\ SpendCase /\ call.res = "Ok" /\ call.created = << >>
    /\ 0 < call.args.amount /\ call.args.amount < ApprovalBefore.amount
    /\ ApprovalAfter.exists /\ ApprovalAfter.amount = ApprovalBefore.amount - call.args.amount

\* A spend within the approved total whose inner transfer returned an error.
InnerTransferFails == SpendCase /\ ~Overspend /\ call.res # "Ok"

\* C15: when the transfer inside a spend fails, whatever the reason, the
\* approval keeps its amount and deposit and no balance of the asset or of the
\* currency changes.
C15_FailedSpend ==
    InnerTransferFails =>
        /\ approvals = call.pre.approvals
        /\ account = call.pre.account
        /\ asset = call.pre.asset
        /\ free = call.pre.free
        /\ reserved = call.pre.reserved

C15_Witness ==
    /\ InnerTransferFails /\ call.res = "Frozen"
    /\ call.args.amount > 0
    /\ call.pre.account[call.args.who].balance >= call.args.amount
    /\ ApprovalAfter.exists /\ ApprovalAfter.amount >= call.args.amount

ApproveCase == pc = "ret" /\ call.op = "approve_transfer" /\ call.res = "Ok"

\* C16 as amended: the first approve for a key creates the record with the
\* given amount and reserves ApprovalDeposit from the owner; each later approve
\* adds its amount to the stored total, which stops at the largest balance, and
\* reserves nothing more; the stored deposit is what was reserved for the record.
C16_ApproveAdditive ==
    ApproveCase =>
        /\ IF ~ApprovalBefore.exists
           THEN /\ ApprovalAfter = [exists |-> TRUE, amount |-> call.args.amount,
                                    deposit |-> ApprovalDeposit]
                /\ reserved[call.args.who] = call.pre.reserved[call.args.who] + ApprovalDeposit
                /\ free[call.args.who] = call.pre.free[call.args.who] - ApprovalDeposit
           ELSE /\ ApprovalAfter = [ApprovalBefore EXCEPT
                                       !.amount = Min(MaxBalance, @ + call.args.amount)]
                /\ reserved = call.pre.reserved
                /\ free = call.pre.free
        /\ ApprovalAfter.deposit = ApprovalDeposit
        /\ reserved[call.args.who] >= ApprovalAfter.deposit

\* C16 as stated: each later approve adds its amount to the stored total.
C16_ApproveAddsExactly ==
    (ApproveCase /\ ApprovalBefore.exists) =>
        ApprovalAfter.amount = ApprovalBefore.amount + call.args.amount

C16_Witness ==
    /\ ApproveCase /\ ApprovalBefore.exists
    /\ ApprovalBefore.amount > 0 /\ call.args.amount > 0
    /\ ApprovalAfter.amount = ApprovalBefore.amount + call.args.amount
    /\ reserved[call.args.who] = ApprovalDeposit

\* A cancellation by someone entitled to it: the owner through
\* cancel_approval, ForceOrigin or the asset's admin through
\* force_cancel_approval.
CancelCase ==
    /\ pc = "ret"
    /\ \/ call.op = "cancel_approval"
       \/ /\ call.op = "force_cancel_approval"
          /\ \/ call.args.origin = << >>
             \/ /\ call.pre.asset.exists
                /\ call.args.origin = << call.pre.asset.admin >>

\* The ledger before the call with the approval removed and its deposit moved
\* from the owner's reserved to the owner's free balance.
Cancelled ==
    [call.pre EXCEPT !.approvals[CallKey] = NoApproval,
                     !.reserved[call.args.who] = @ - ApprovalBefore.deposit,
                     !.free[call.args.who] = @ + ApprovalBefore.deposit]

\* C17: cancelling an existing approval removes the record and unreserves
\* exactly its stored deposit to the owner; cancelling an absent approval
\* fails with Unknown and changes nothing.
C17_Cancel ==
    CancelCase =>
        IF ApprovalBefore.exists
        THEN call.res = "Ok" /\ Cur = Cancelled
        ELSE call.res = "Unknown" /\ Cur = call.pre

C17_Witness ==
    /\ CancelCase /\ call.op = "force_cancel_approval" /\ call.res = "Ok"
    /\ ApprovalBefore.exists /\ ApprovalBefore.deposit > 0
    /\ ~ApprovalAfter.exists
    /\ free[call.args.who] = call.pre.free[call.args.who] + ApprovalBefore.deposit

\* The account debited by the call, or its asset, was frozen when the call came.
FrozenSource ==
    /\ pc = "ret"
    /\ call.pre.asset.exists
    /\ call.pre.asset.is_frozen \/ call.pre.account[call.args.who].is_frozen

\* The ledger before the call with neither flag set.
Thawed ==
    [call.pre EXCEPT !.asset.is_frozen = FALSE,
                     !.account[call.args.who].is_frozen = FALSE]

\* The admin's call would have gone through had nothing been frozen.
Admissible ==
    /\ call.args.amount > 0
    /\ \/ /\ call.op = "force_transfer"
          /\ DoTransfer(Thawed, call.args.who, call.args.dest, call.args.amount,
                        call.args.origin, FALSE, "Ignore", FALSE, FALSE,
                        call.args.fz).res = "Ok"
       \/ /\ call.op = "burn"
          /\ DoBurn(Thawed, call.args.who, call.args.amount, call.args.origin,
                    FALSE, "Ignore", TRUE, call.args.fz).res = "Ok"

\* C18: while the account or the asset is frozen, the admin's force_transfer
\* and burn of an otherwise admissible amount from the account still succeed,
\* and transfer, transfer_keep_alive and transfer_approved from it fail with
\* Frozen.
C18_FreezeSparesAdmin ==
    FrozenSource =>
        /\ (call.op \in {"force_transfer", "burn"} /\ Admissible) => call.res = "Ok"
        /\ (call.op \in {"transfer", "transfer_approved"} /\ call.args.amount > 0
              /\ (call.op = "transfer_approved" => ~Overspend))
             => call.res = "Frozen"

C18_AdminTransferFrozen ==
    /\ FrozenSource /\ call.op = "force_transfer" /\ Admissible
    /\ call.res = "Frozen" /\ Cur = call.pre

\* A destroy of an existing asset by ForceOrigin or by the asset's owner.
DestroyCase ==
    /\ pc = "ret" /\ call.op = "destroy"
    /\ call.pre.asset.exists
    /\ call.args.origin = << >> \/ call.args.origin = << call.pre.asset.owner >>

\* The counters the asset has stored, as a witness.
StoredWitness ==
    [accounts |-> call.pre.asset.accounts,
     sufficients |-> call.pre.asset.sufficients,
     approvals |-> call.pre.asset.approvals]

\* C19 as amended: an asset is destroyed only when the supplied witness equals
\* the stored (accounts, sufficients, approvals) exactly, and then it goes with
\* all its accounts and approvals, however many accounts it has; a destroy with
\* any mismatching component fails with BadWitness and leaves the asset, its
\* accounts and its approvals unchanged.
C19_DestroyWitness ==
    /\ (pc = "ret" /\ call.pre.asset.exists /\ ~asset.exists) =>
          /\ DestroyCase /\ call.res = "Ok"
          /\ call.args.witness = StoredWitness
    /\ DestroyCase =>
          IF call.args.witness = StoredWitness
          THEN /\ call.res = "Ok"
               /\ ~asset.exists
               /\ \A h \in Holders : ~account[h].exists
               /\ \A k \in Holders \X Holders : ~approvals[k].exists
          ELSE call.res = "BadWitness" /\ Cur = call.pre

\* C19 as stated: an asset is destroyed only when its stored account count is 0.
C19_DestroyOnlyEmpty ==
    (pc = "ret" /\ call.pre.asset.exists /\ ~asset.exists) =>
        /\ call.pre.asset.accounts = 0
        /\ call.args.witness = StoredWitness

C19_Witness ==
    /\ DestroyCase /\ call.res = "Ok"
    /\ call.pre.asset.accounts > 0
    /\ call.args.witness = StoredWitness
    /\ ~asset.exists

\* A debit of a non-zero amount with keep_alive set that went through:
\* transfer_keep_alive, or the engine's transfer or burn called with the flag.
KeepAliveDebit ==
    /\ pc = "ret" /\ call.op \in {"transfer", "do_transfer", "do_burn"}
    /\ call.args.keep_alive
    /\ call.args.amount > 0
    /\ call.res = "Ok"

\* C20: after a successful transfer with keep_alive and a non-zero amount the
\* sender's record still exists with a balance of at least the minimum
\* balance; no debit with keep_alive deletes the debited account.
C20_KeepAlive ==
    KeepAliveDebit =>
        /\ call.pre.account[call.args.who].exists
        /\ account[call.args.who].exists
        /\ account[call.args.who].balance >= asset.min_balance
        /\ NotesOf("died", call.args.who) = {}

C20_Witness ==
    /\ KeepAliveDebit /\ call.op = "do_transfer"
    /\ call.args.who # call.args.dest
    /\ call.ret > 0
    /\ account[call.args.who].balance = asset.min_balance
    /\ account[call.args.who].balance < call.pre.account[call.args.who].balance

\* A debit made with RespectFrozen::Respect: transfer, transfer_keep_alive,
\* transfer_approved, burn_from, slash, or the engine called with that flag.
RespectingCase ==
    /\ pc = "ret"
    /\ call.op \in {"transfer", "transfer_approved", "burn_from", "do_transfer", "do_burn"}
    /\ call.args.respect_frozen = "Respect"

\* C21: when freezes are respected no melt notification is made: can_decrease
\* returns no melt amount for any holder, amount, keep_alive and answer of the
\* hook, and no debit made with Respect sends `melted`.
C21_RespectNeverMelts ==
    /\ \A h \in Holders, amount \in Balances, keep_alive \in BOOLEAN, fz \in FrozenAnswers :
          CanDecrease(Cur, h, amount, keep_alive, "Respect", fz).melt = NoneB
    /\ RespectingCase => \A h \in Holders : NotesOf("melted", h) = {}

C21_Witness ==
    /\ RespectingCase /\ call.res = "Ok"
    /\ call.args.fz # NoneB
    /\ call.ret > 0
    /\ CanDecrease(call.pre, call.args.who, call.args.amount, call.args.keep_alive,
                   "Respect", call.args.fz).conseq = "Success"

\* C22: a melt notification is delivered only for a holder whose account
\* record exists when it is sent, never for an account the same burn or
\* transfer has just deleted.
C22_MeltedAccountExists ==
    pc = "ret" => \A h \in Holders : NotesOf("melted", h) # {} => account[h].exists

C22_MeltedAfterDeath ==
    /\ pc = "ret" /\ call.op = "force_transfer" /\ call.res = "Ok"
    /\ call.args.who # call.args.dest
    /\ call.pre.account[call.args.who].exists
    /\ ~account[call.args.who].exists
    /\ NotesOf("died", call.args.who) # {}
    /\ NotesOf("melted", call.args.who) # {}

\* A transfer between two holders that went through.
TransferDone ==
    /\ pc = "ret" /\ call.op \in {"transfer", "force_transfer", "do_transfer"}
    /\ call.res = "Ok"
    /\ call.args.who # call.args.dest

\* What the call took from the balance of the holder it names.
Debited == call.pre.account[call.args.who].balance - account[call.args.who].balance

MintCase == pc = "ret" /\ call.op = "mint"

\* The reference counts of the beneficiary after a call that created the
\* record: one more of the class the asset's is_sufficient flag selects.
OneReferenceTaken ==
    LET who == call.args.who
    IN  IF call.pre.asset.is_sufficient
        THEN /\ call.notes = << Note("inc_sufficients", who, 0) >>
             /\ sufficients = [call.pre.sufficients EXCEPT ![who] = @ + 1]
             /\ consumers = call.pre.consumers
             /\ asset.sufficients = call.pre.asset.sufficients + 1
             /\ account[who].sufficient
        ELSE /\ call.notes = << Note("inc_consumers", who, 0) >>
             /\ consumers = [call.pre.consumers EXCEPT ![who] = @ + 1]
             /\ sufficients = call.pre.sufficients
             /\ asset.sufficients = call.pre.asset.sufficients
             /\ ~account[who].sufficient

\* C24: a successful mint of a non-zero amount raises the supply and the
\* beneficiary's balance by exactly the amount; a beneficiary without a record
\* gets one, the account count goes up by one and exactly one reference of
\* the class selected by is_sufficient is taken; a mint of 0 does nothing.
C24_Mint ==
    MintCase =>
        IF call.args.amount = 0
        THEN call.res = "Ok" /\ Cur = call.pre /\ call.notes = << >>
        ELSE call.res = "Ok" =>
               /\ asset.supply = call.pre.asset.supply + call.args.amount
               /\ account[call.args.who].exists
               /\ account[call.args.who].balance =
                     call.pre.account[call.args.who].balance + call.args.amount
               /\ \A h \in Holders \ {call.args.who} : account[h] = call.pre.account[h]
               /\ ~call.pre.account[call.args.who].exists =>
                     /\ asset.accounts = call.pre.asset.accounts + 1
                     /\ OneReferenceTaken

C24_Witness ==
    /\ MintCase /\ call.res = "Ok" /\ call.args.amount > 0
    /\ ~call.pre.account[call.args.who].exists
    /\ call.pre.asset.is_sufficient
    /\ call.pre.asset.accounts = 1
    /\ asset.accounts = 2
    /\ sufficients[call.args.who] = call.pre.sufficients[call.args.who] + 1

\* The approvals stored for the asset.
ApprovalRecords == {k \in Holders \X Holders : approvals[k].exists}

\* C25: the asset's approvals counter equals the number of approvals stored for
\* the asset after any sequence of approve, spend and cancel calls.
C25_ApprovalCount ==
    asset.exists => asset.approvals = Cardinality(ApprovalRecords)

C25_CounterStaysZero ==
    /\ ApproveCase /\ call.pre.asset.exists
    /\ ~ApprovalBefore.exists /\ ApprovalAfter.exists
    /\ call.pre.asset.approvals = 0
    /\ asset.approvals = 0
    /\ Destroy(Cur, << >>, [accounts |-> asset.accounts,
                            sufficients |-> asset.sufficients,
                            approvals |-> 0]).res = "Ok"

\* What the function asked has read, and the rest a debit would leave.
AskedDetails == call.pre.asset
AskedAccount == call.pre.account[call.args.who]
AskedRest == AskedAccount.balance - call.args.amount
AskedFrozen == Unwrap(call.args.fz)
HookFreezes == IsSome(call.args.fz)

CanDecreaseAsked == pc = "ret" /\ call.op = "can_decrease"

\* The first failure of can_withdraw in the order the precedence gives, with
\* the dust of ReducedToZero.
WithdrawPrecedence ==
    IF ~AskedDetails.exists THEN << "UnknownAsset", 0 >>
    ELSE IF call.args.amount > AskedDetails.supply THEN << "Underflow", 0 >>
    ELSE IF AskedDetails.is_frozen \/ AskedAccount.is_frozen THEN << "Frozen", 0 >>
    ELSE IF call.args.amount > AskedAccount.balance THEN << "NoFunds", 0 >>
    ELSE IF HookFreezes /\ AskedFrozen + AskedDetails.min_balance > MaxBalance
         THEN << "Overflow", 0 >>
    ELSE IF /\ HookFreezes /\ call.args.respect_frozen = "Respect"
            /\ AskedRest < AskedFrozen + AskedDetails.min_balance
         THEN << "Frozen", 0 >>
    ELSE IF AskedRest < AskedDetails.min_balance /\ call.args.keep_alive
         THEN << "WouldDie", 0 >>
    ELSE IF AskedRest < AskedDetails.min_balance THEN << "ReducedToZero", AskedRest >>
    ELSE << "Success", 0 >>

\* C26: can_withdraw reports UnknownAsset, else Underflow, else Frozen for a
\* frozen asset or account, else NoFunds, else Overflow of frozen +
\* min_balance, else Frozen for a respected extra-frozen amount the rest falls
\* below, else WouldDie, else ReducedToZero(rest), else Success.
C26_WithdrawPrecedence ==
    CanDecreaseAsked => << call.ret.conseq, call.ret.dust >> = WithdrawPrecedence

C26_Witness ==
    /\ CanDecreaseAsked
    /\ AskedDetails.exists /\ AskedAccount.is_frozen
    /\ call.args.amount > AskedAccount.balance
    /\ call.args.amount <= AskedDetails.supply
    /\ call.ret.conseq = "Frozen"

\* C27: can_withdraw returns a melt amount exactly when the hook reports an
\* extra-frozen amount, freezes are not respected, the rest is below frozen +
\* min_balance and the consequence is Success or ReducedToZero; the amount is
\* then max(0, rest - min_balance).
C27_MeltAmount ==
    CanDecreaseAsked =>
        IF /\ HookFreezes /\ call.args.respect_frozen = "Ignore"
           /\ AskedRest < AskedFrozen + AskedDetails.min_balance
           /\ call.ret.conseq \in {"Success", "ReducedToZero"}
        THEN call.ret.melt =
                SomeB(IF AskedRest - AskedDetails.min_balance > 0
                      THEN AskedRest - AskedDetails.min_balance ELSE 0)
        ELSE call.ret.melt = NoneB

C27_Witness ==
    /\ CanDecreaseAsked
    /\ HookFreezes /\ call.args.respect_frozen = "Ignore"
    /\ call.ret.conseq = "Success"
    /\ AskedRest - AskedDetails.min_balance > 0
    /\ call.ret.melt = SomeB(AskedRest - AskedDetails.min_balance)

CanIncreaseAsked == pc = "ret" /\ call.op = "can_increase"

\* The first failure of can_deposit in the order the claim gives.
DepositPrecedence ==
    IF ~AskedDetails.exists THEN "UnknownAsset"
    ELSE IF AskedDetails.supply + call.args.amount > MaxBalance THEN "Overflow"
    ELSE IF AskedAccount.balance + call.args.amount > MaxBalance THEN "Overflow"
    ELSE IF AskedAccount.balance # 0 THEN "Success"
    ELSE IF call.args.amount < AskedDetails.min_balance THEN "BelowMinimum"
    ELSE IF ~AskedDetails.is_sufficient /\ call.pre.providers[call.args.who] = 0
         THEN "CannotCreate"
    ELSE IF AskedDetails.is_sufficient /\ AskedDetails.sufficients + 1 > MaxCount
         THEN "Overflow"
    ELSE "Success"

\* C28: can_deposit returns UnknownAsset, else Overflow of supply + amount or
\* balance + amount, else for a holder with balance zero BelowMinimum,
\* CannotCreate, Overflow of the sufficient count in this order, else Success;
\* it changes nothing.
C28_DepositPrecedence ==
    CanIncreaseAsked => call.ret = DepositPrecedence /\ Cur = call.pre

C28_Witness ==
    /\ CanIncreaseAsked
    /\ AskedDetails.exists /\ AskedAccount.balance = 0
    /\ call.args.amount < AskedDetails.min_balance
    /\ AskedDetails.supply + call.args.amount > MaxBalance
    /\ call.ret = "Overflow"

DecreasableAsked ==
    pc = "ret" /\ call.op = "decreasable_balance" /\ call.ret.err = "Ok"

\* The consequence can_withdraw gives for `amount` with the flags and the hook
\* answer decreasable_balance was asked with.
WithdrawOfAsked(amount) ==
    CanDecrease(call.pre, call.args.who, amount, call.args.keep_alive,
                call.args.respect_frozen, call.args.fz).conseq

\* C29: decreasable_balance is the largest amount can_withdraw accepts with the
\* same flags: can_withdraw of exactly that amount gives Success or
\* ReducedToZero, of any larger amount a failure, and the value is at most the
\* holder's balance and at most the supply.
C29_DecreasableIsMaximum ==
    DecreasableAsked =>
        /\ WithdrawOk(WithdrawOfAsked(call.ret.val))
        /\ \A larger \in Balances :
              larger > call.ret.val => ~WithdrawOk(WithdrawOfAsked(larger))
        /\ call.ret.val <= AskedAccount.balance
        /\ call.ret.val <= AskedDetails.supply

\* The account holds exactly the minimum balance, the supply covers it, the
\* hook reports a frozen amount that is respected: the value is 0 and
\* can_withdraw rejects 0.
C29_ZeroRejected ==
    /\ DecreasableAsked
    /\ AskedAccount.exists
    /\ AskedAccount.balance >= AskedDetails.min_balance
    /\ AskedDetails.min_balance > 0
    /\ AskedDetails.supply = AskedAccount.balance
    /\ call.args.respect_frozen = "Respect" /\ HookFreezes
    /\ call.ret.val = 0
    /\ WithdrawOfAsked(0) = "Frozen"


\* The calls the last operation made to the "passed from decreasable_balance;
\* qed" assertion of prep_debit with its condition false.
SecondPassFailures == {i \in DOMAIN call.notes : call.notes[i].k = "debug_assert" /\ call.notes[i].arg = 0}

\* C30: second pass of prepare_debit.  Once decreasable_balance has returned a
\* cap and the BalanceLow check has passed, can_withdraw on min(amount, cap)
\* does not fail: in every reachable state and with every combination of
\* flags, no call reaches the assertion "passed from decreasable_balance; qed".
C30_SecondPassNeverFails == SecondPassFailures = {}

\* C30, what the code does: a best-effort transfer out of a balance that is
\* already below the frozen amount plus the minimum is capped at zero, the
\* second pass rejects zero, and the assertion is reached.
C30_SecondPassFails ==
    /\ pc = "ret" /\ call.op = "do_transfer"
    /\ call.args.amount > 0
    /\ call.pre.asset.exists /\ call.pre.account[call.args.who].exists
    /\ SecondPassFailures # {}
    /\ call.res = "Token.Frozen"
    /\ Cur = call.pre


\* The last call went through prep_debit: a burn or a transfer of a non-zero
\* amount (a zero amount returns before it).
DebitPrepared ==
    /\ pc = "ret" /\ call.op \in {"do_burn", "do_transfer"}
    /\ call.args.amount > 0

TransferBetween ==
    /\ pc = "ret" /\ call.op = "do_transfer" /\ call.res = "Ok"
    /\ call.args.amount > 0
    /\ call.args.who # call.args.dest

\* The debit prep_debit worked out for the last transfer.
DebitOfTransfer ==
    PrepDebit(call.pre, call.args.who, call.args.amount, call.args.keep_alive,
              call.args.respect_frozen, call.args.best_effort, call.args.fz).actual

Credited == account[call.args.dest].balance - call.pre.account[call.args.dest].balance

SupplyDrop == call.pre.asset.supply - asset.supply

\* The last transfer burnt dust: burn_dust was set and the debit exceeded the
\* amount asked.
DustBurnt == call.args.burn_dust /\ DebitOfTransfer > call.args.amount

\* C32: dust of a transfer.  A successful transfer debits the source the
\* debit; with burn_dust and a debit above the amount asked the destination is
\* credited exactly the amount and the supply decreases by debit - amount;
\* otherwise the destination is credited the whole debit and the supply is
\* unchanged.
C32_TransferDust ==
    TransferBetween =>
        /\ Debited = DebitOfTransfer
        /\ DustBurnt => (Credited = call.args.amount
                            /\ SupplyDrop = DebitOfTransfer - call.args.amount)
        /\ ~DustBurnt => (Credited = DebitOfTransfer /\ SupplyDrop = 0)

\* C32: a transfer burnt the dust it swept off the source.
C32_Witness ==
    /\ TransferBetween
    /\ DustBurnt
    /\ SupplyDrop > 0
    /\ ~account[call.args.who].exists


\* The last call is a transfer of a non-zero amount from a holder to itself
\* whose debit and credit preparation both succeed.
SelfTransfer ==
    /\ pc = "ret" /\ call.op = "do_transfer"
    /\ call.args.amount > 0
    /\ call.args.who = call.args.dest
    /\ PrepDebit(call.pre, call.args.who, call.args.amount, call.args.keep_alive,
                 call.args.respect_frozen, call.args.best_effort, call.args.fz).err = "Ok"
    /\ PrepCredit(call.pre, call.args.dest, call.args.amount, DebitOfTransfer,
                  call.args.burn_dust).err = "Ok"

\* C33: identity transfer.  A transfer whose source is its destination and
\* whose debit and credit preparation succeed returns success and leaves every
\* balance, the supply, the account count, the sufficient count and every
\* reference count as they were.
C33_IdentityTransfer ==
    SelfTransfer =>
        /\ call.res = "Ok"
        /\ Cur = call.pre
        /\ \A i \in DOMAIN call.notes : call.notes[i].k = "melted"

\* C33: a holder transferred its whole balance to itself and kept it.
C33_Witness ==
    /\ SelfTransfer
    /\ call.res = "Ok"
    /\ DebitOfTransfer = call.pre.account[call.args.who].balance
    /\ account[call.args.who].balance = DebitOfTransfer


\* The last call is a burn or a transfer that closed the account it debited.
DeathCase ==
    /\ pc = "ret" /\ call.op \in {"do_burn", "do_transfer"}
    /\ call.res = "Ok"
    /\ NotesOf("died", call.args.who) # {}

DecrementsOf(h) == NotesOf("dec_consumers", h) \cup NotesOf("dec_sufficients", h)

\* C34: order of the notifications on account death.  When a burn or a
\* transfer empties the debited account, the account record is deleted and the
\* reference counter decremented before the death notification, and a melt
\* notification comes after the ledger mutation, hence after the death
\* notification.
C34_DeathOrdering ==
    DeathCase =>
        \A d \in NotesOf("died", call.args.who) :
            /\ \E r \in NotesOf("removed", call.args.who) : r < d
            /\ \E c \in DecrementsOf(call.args.who) : c < d
            /\ \A m \in NotesOf("melted", call.args.who) :
                  /\ m > d
                  /\ \A r \in NotesOf("removed", call.args.who) : m > r

\* C34, what the code does: the reference counter is decremented, the death
\* notification is sent, and only then is the record taken out of storage.
C34_DiedBeforeRemoval ==
    /\ DeathCase
    /\ \E c \in DecrementsOf(call.args.who), d \in NotesOf("died", call.args.who),
          r \in NotesOf("removed", call.args.who) : c < d /\ d < r
    /\ ~account[call.args.who].exists


\* What the owner has approved for the delegate in total, less what the
\* delegate's successful spends have debited from the owner in total, the last
\* call included.
Headroom == call.headroom + (IF pc = "ret" THEN Gain(call, Cur) ELSE 0)

\* C35: delegated spending is bounded by the allowance.  The total debited from
\* the owner by the delegate's successful spends never exceeds the total the
\* owner approved for that delegate.
C35_SpendWithinAllowance == Headroom >= 0

\* C35, what the code does: a spend within the allowance leaves the owner
\* less than the minimum balance, the whole balance is taken, and the delegate
\* has debited more than was ever approved.
C35_SpendSweepsDust ==
    /\ SpendCase /\ call.res = "Ok"
    /\ CallKey = TalliedKey
    /\ call.args.amount <= ApprovalBefore.amount
    /\ Debited > call.args.amount
    /\ Headroom < 0


\* Holder h had a record before the last call, and its account or the asset
\* was frozen.
FrozenBefore(h) ==
    /\ call.pre.asset.exists
    /\ call.pre.account[h].exists
    /\ call.pre.account[h].is_frozen \/ call.pre.asset.is_frozen

Debiting == {"burn", "burn_from", "transfer", "force_transfer", "transfer_approved"}

FittingTransfer ==
    /\ pc = "ret" /\ call.op \in {"transfer", "force_transfer", "do_transfer"}
    /\ call.args.amount > 0
    /\ call.args.who # call.args.dest
    /\ ~call.args.burn_dust
    /\ PrepDebit(call.pre, call.args.who, call.args.amount, call.args.keep_alive,
                 call.args.respect_frozen, call.args.best_effort, call.args.fz).err = "Ok"
    /\ CheckedAddOk(call.pre.account[call.args.dest].balance, DebitOfTransfer)

\* C37: a transfer without dust burning leaves the supply as it is and is not
\* rejected with Overflow on account of the supply: when the credit fits in
\* the destination's balance it is admitted even if supply + credit exceeds
\* the largest balance.
C37_NoSupplyOverflow == FittingTransfer => call.res # "Token.Overflow"

\* C37, what the code does: a transfer to a holder that has a record, whose
\* balance can take the credit, is refused with Overflow because supply +
\* credit exceeds the largest balance.
C37_SupplyOverflow ==
    /\ FittingTransfer
    /\ call.pre.account[call.args.dest].exists
    /\ ~CheckedAddOk(call.pre.asset.supply, DebitOfTransfer)
    /\ call.res = "Token.Overflow"
    /\ Cur = call.pre


StatusForced == pc = "ret" /\ call.op = "force_asset_status" /\ call.res = "Ok"

\* C38: the minimum balance survives force_asset_status.  After
\* force_asset_status has changed the minimum balance of an asset, every
\* account record of the asset holds at least the new minimum balance.
C38_MinimumSurvivesStatus ==
    StatusForced =>
        \A h \in Holders : account[h].exists => account[h].balance >= asset.min_balance

\* C38, what the code does: the new minimum balance is stored as given, and a
\* record that met the old minimum is left as it was, below the new one.
C38_BelowNewMinimum ==
    /\ StatusForced
    /\ asset.min_balance = call.args.min_balance
    /\ asset.min_balance > call.pre.asset.min_balance
    /\ account = call.pre.account
    /\ \E h \in Holders :
          /\ account[h].exists
          /\ account[h].balance >= call.pre.asset.min_balance
          /\ account[h].balance < asset.min_balance


Destroyed == pc = "ret" /\ call.op = "destroy" /\ call.res = "Ok"

HowMany(k, h) == Cardinality(NotesOf(k, h))

\* C39: destroy leaves nothing behind.  After a successful destroy no account
\* record and no approval record of the asset remains and the asset record is
\* gone; for each account that existed, exactly one reference-count decrement
\* of its recorded class and exactly one death notification were issued, and
\* none for a holder without a record.
C39_DestroyLeavesNothing ==
    Destroyed =>
        /\ ~asset.exists
        /\ \A h \in Holders : ~account[h].exists
        /\ \A k \in Holders \X Holders : ~approvals[k].exists
        /\ \A h \in Holders :
              LET before == call.pre.account[h]
                  one(b) == IF b THEN 1 ELSE 0
              IN  /\ HowMany("died", h) = one(before.exists)
                  /\ HowMany("dec_sufficients", h)
                        = one(before.exists /\ before.sufficient)
                  /\ HowMany("dec_consumers", h)
                        = one(before.exists /\ ~before.sufficient)

\* C39: an asset was destroyed with a self-sufficient account, a second
\* account and an approval.
C39_Witness ==
    /\ Destroyed
    /\ \A h \in Holders : call.pre.account[h].exists
    /\ \E h \in Holders : call.pre.account[h].sufficient
    /\ \E k \in Holders \X Holders : call.pre.approvals[k].exists


ExtraWrites == {"try_mutate_exists", "commit", "revert", "drop"}

\* The last call has changed nothing but, at most, the extra of account records.
OnlyExtraWritten ==
    /\ [Cur EXCEPT !.account = call.pre.account] = call.pre
    /\ \A h \in Holders :
          account[h] = [call.pre.account[h] EXCEPT !.extra = account[h].extra]

\* The last call addressed the extra of a holder without an account record.
WithoutRecord ==
    /\ pc = "ret" /\ call.op \in {"try_mutate_exists", "commit", "revert"}
    /\ ~call.pre.account[call.args.who].exists

\* The last call asked to delete the extra of a holder with a record.
DeletionAsked ==
    /\ pc = "ret" /\ call.op = "try_mutate_exists"
    /\ call.args.request = "delete"
    /\ call.pre.account[call.args.who].exists

\* mint, burn and transfer leave the extra of an account that survives them.
EngineKeepsExtra ==
    (pc = "ret" /\ call.op \in {"mint", "burn", "transfer"}) =>
        \A h \in Holders :
            (call.pre.account[h].exists /\ account[h].exists)
                => account[h].extra = call.pre.account[h].extra

\* C40 as amended: writes to the extra payload never create or delete an
\* account record and never alter a balance, a frozen flag or a sufficiency.
\* For a holder without a record nothing is written: try_mutate_exists fails
\* unless the closure asks for deletion, which passes; commit fails when a
\* value is pending and passes when none is; revert fails.  A request to
\* delete the extra of an existing account fails and changes nothing.  Mint,
\* burn and transfer leave the extra of a surviving account unchanged.
C40_ExtraWritesAmended ==
    /\ (pc = "ret" /\ call.op \in ExtraWrites) => OnlyExtraWritten
    /\ WithoutRecord =>
          /\ Cur = call.pre
          /\ call.op = "try_mutate_exists"
                => (call.res = "Ok" <=> call.args.request = "delete")
          /\ call.op = "commit" => (call.res = "Ok" <=> ~IsSome(call.args.pending))
          /\ call.op = "revert" => call.res # "Ok"
    /\ DeletionAsked => (call.res # "Ok" /\ Cur = call.pre)
    /\ EngineKeepsExtra

\* C40: writes to the extra payload never create or delete an account record
\* and never alter a balance, a frozen flag or a sufficiency;
\* try_mutate_exists, commit and revert fail for a holder without a record; a
\* request to delete the extra of an existing account fails and changes
\* nothing; mint, burn and transfer leave the extra of a surviving account
\* unchanged.
C40_ExtraWrites ==
    /\ (pc = "ret" /\ call.op \in ExtraWrites) => OnlyExtraWritten
    /\ WithoutRecord => (call.res # "Ok" /\ Cur = call.pre)
    /\ DeletionAsked => (call.res # "Ok" /\ Cur = call.pre)
    /\ (pc = "ret" /\ call.op \in {"mint", "burn", "transfer"}) =>
          \A h \in Holders :
              (call.pre.account[h].exists /\ account[h].exists)
                  => account[h].extra = call.pre.account[h].extra

\* C40: a request to delete the extra of a holder without a record has
\* passed, on a ledger where another holder's record carries an extra.
C40_Witness ==
    /\ WithoutRecord
    /\ call.op = "try_mutate_exists" /\ call.args.request = "delete"
    /\ call.res = "Ok"
    /\ \E h \in Holders : account[h].exists /\ account[h].extra # 0

====
